
---- MODULE Spec2Model ----
(***************************************************************************)
(* KlipperFleet: the flash orchestrator (backend/main.py) and the bus      *)
(* operations of the flash manager (backend/flash_manager.py).             *)
(*                                                                         *)
(* SpecBus  concurrent requests, each running flash-manager operations     *)
(*          (discovery, reboot, flash, return to application) against the  *)
(*          two asyncio locks.                                             *)
(* Spec     one batch task (batch_operation.run_task) together with the    *)
(*          cancel endpoint; its flashes run the same operations.          *)
(*                                                                         *)
(* An await of the source is a point where another coroutine may run; an   *)
(* action of the model is the code between two such points.  The flash     *)
(* manager's operations are coroutines and async generators: op[c] is the  *)
(* operation caller c is running and the place where it is suspended.  At  *)
(* a yield the consumer holds control: it resumes the generator or, when   *)
(* it returns out of its "async for", abandons it.                         *)
(***************************************************************************)
EXTENDS Integers, Sequences, FiniteSets, TLC

VARIABLES
    tasks,            \* TaskStore.tasks: task id -> task record
    bt,               \* the frame of batch_operation.run_task (locals and position)
    services,         \* host services (klipper*, moonraker*): "running" / "stopped"
    op,               \* caller -> the flash-manager operation it is running
    can_lock,         \* FlashManager._can_lock: "free" or the caller holding it
    dfu_lock,         \* FlashManager._dfu_lock: "free" or the caller holding it
    procs,            \* tool processes alive: records [tool, owner]
    can_cache_fresh,  \* now - _can_cache_time[interface] < _can_cache_ttl_s
    dfu_cache_fresh,  \* now - _dfu_cache_time < _dfu_cache_ttl_s
    gf,               \* the GET /fleet request in progress: the frame of get_fleet
    loop,             \* the event loop: its clock, and the task-creating calls served
    scan,             \* the wait for a rebooted device: snapshot, discovered list, choice
    registry,         \* FleetManager: the content of fleet.json and the last call on it
    call              \* a call of a function without side effects: arguments and result

busVars == <<op, can_lock, dfu_lock, procs, can_cache_fresh, dfu_cache_fresh>>
taskVars == <<tasks, bt, services>>
fileVars == <<scan, registry, call>>
auxVars == <<gf, loop, fileVars>>
vars == <<tasks, bt, services, op, can_lock, dfu_lock, procs, can_cache_fresh, dfu_cache_fresh,
          gf, loop, scan, registry, call>>

----------------------------------------------------------------------------
(* Program constants *)

\* flash_dfu: max_retries = 3
max_retries == 3

\* dfu-util exit codes the model distinguishes: success, a failure, and the
\* code of the expected disconnect on detach
ReturnCodes == {0, 1, 251}

\* process.returncode before the process ended
NoCode == -1

----------------------------------------------------------------------------
(* TaskStore *)

BatchId == "task_batch"

NewTask ==
    [status |-> "running", logs |-> <<>>, completed |-> FALSE,
     cancelled |-> FALSE, device_statuses |-> <<>>, is_bus_task |-> FALSE]

create_task(ts, task_id) ==
    [t \in (DOMAIN ts) \cup {task_id} |-> IF t = task_id THEN NewTask ELSE ts[t]]

add_log(ts, task_id, log) ==
    IF task_id \in DOMAIN ts
    THEN [ts EXCEPT ![task_id].logs = Append(@, log)]
    ELSE ts

SetStatus(ds, device_id, status) ==
    [d \in (DOMAIN ds) \cup {device_id} |-> IF d = device_id THEN status ELSE ds[d]]

update_device_status(ts, task_id, device_id, status) ==
    IF task_id \in DOMAIN ts
    THEN [ts EXCEPT ![task_id].device_statuses = SetStatus(@, device_id, status)]
    ELSE ts

get_device_status(ts, task_id, device_id) ==
    IF task_id \in DOMAIN ts /\ device_id \in DOMAIN ts[task_id].device_statuses
    THEN ts[task_id].device_statuses[device_id]
    ELSE "None"

cancel_task(ts, task_id) ==
    IF task_id \in DOMAIN ts
    THEN [ts EXCEPT ![task_id].cancelled = TRUE,
                    ![task_id].status = "cancelled",
                    ![task_id].logs = Append(@, "TASK CANCELLED BY USER")]
    ELSE ts

is_cancelled(ts, task_id) ==
    IF task_id \in DOMAIN ts THEN ts[task_id].cancelled ELSE FALSE

complete_task(ts, task_id, status) ==
    IF task_id \in DOMAIN ts
    THEN [ts EXCEPT ![task_id].status = IF ts[task_id].cancelled THEN @ ELSE status,
                    ![task_id].completed = TRUE]
    ELSE ts

\* the units of the event loop's clock in one second, and the clock when the
\* program starts
TicksPerSecond == 2
LoopStart == [time |-> 0, calls |-> 0, streams |-> {}]

\* no GET /fleet request is in progress
NoRequest == [pc |-> "idle"]

\* no device is being waited for, and the registry is not in use
NoScan == [pc |-> "idle"]
NoRegistry == [call |-> "none"]
NoCall == [fn |-> "none"]

----------------------------------------------------------------------------
(* Flash-manager operations: locks, tool processes, generators *)

Requests == {"req1", "req2"}

IdleOp ==
    [kind |-> "idle", pc |-> "idle", attempt |-> 0, flash_success |-> FALSE,
     leave |-> FALSE, force |-> FALSE, nested |-> FALSE, rc |-> NoCode,
     downloads |-> 0, redisc |-> 0, result |-> "none", device_id |-> "none"]

StartOp(kind, pc) == [IdleOp EXCEPT !.kind = kind, !.pc = pc]

\* the places where a generator is suspended at a yield
YieldPcs ==
    { "rk_first", "rk_locked", "rk_out", "rk_rel",
      "fc_locked", "fc_chunk", "fc_status", "fc_rel",
      "fd_first", "fd_chunk", "fd_status", "fd_retry", "fd_err", "fd_failed",
      "fd_leave_msg", "fd_leave_chunk", "fd_leave_status", "fd_complete",
      "fs_first", "fs_chunk", "fs_status",
      "fl_first", "fl_status",
      "jc_first", "jc_out", "ld_first", "ld_out" }

AtYield(c) == op[c].pc \in YieldPcs

\* a consumer that takes the next item whatever the cancellation bit says
Resumes_ignoring_cancel(c) == TRUE

\* the consumer of caller c takes the next item of the generator: the batch
\* task leaves its "async for" when its cancellation bit is set
Resumes(c) == c # "batch" \/ ~is_cancelled(tasks, BatchId)

\* the vendor tools that drive the CAN bus, and the dfu-util invocations
CanTools == {"katapult_query", "klipper_query", "flashtool_reboot", "flashtool_flash", "jump_sender"}
DfuTools == {"dfu_list", "dfu_download", "dfu_leave", "dfu_leave_upload"}

Proc(tool, owner) == [tool |-> tool, owner |-> owner]

Spawn(ps, tool, c) == ps \cup {Proc(tool, c)}

\* the processes of caller c end (their exit was awaited)
Reap(ps, c) == {p \in ps : p.owner # c}

\* the processes of caller c stay alive with nobody awaiting them
Orphan(ps, c) == {IF p.owner = c THEN Proc(p.tool, "orphan") ELSE p : p \in ps}

\* "async with lock" is left: by return, by an exception or by aclose()
ReleaseLock(lock, c) == IF lock = c THEN "free" ELSE lock

SetOp(c, o) == op' = [op EXCEPT ![c] = o]
Goto(c, pc) == op' = [op EXCEPT ![c].pc = pc]

(* discover_can_devices_with_interface: a coroutine.  ensure_canbus_up, the  *)
(* cache test, then under the CAN lock the bootloader query (5 s) and the    *)
(* firmware query (2 s), one after the other.  asyncio.wait_for cancels the  *)
(* wait on a timeout; the query process is not killed.                       *)
discover_can_CacheTest(c) ==
    /\ op[c].pc = "dc_ensure"
    /\ IF ~op[c].force /\ can_cache_fresh
       THEN SetOp(c, [op[c] EXCEPT !.pc = "done", !.result = "cached"])
       ELSE Goto(c, "dc_wait")
    /\ UNCHANGED <<can_lock, dfu_lock, procs, can_cache_fresh, dfu_cache_fresh>>
    /\ UNCHANGED taskVars
    /\ UNCHANGED auxVars

discover_can_Acquire(c) ==
    /\ op[c].pc = "dc_wait"
    /\ can_lock = "free"
    /\ can_lock' = c
    /\ procs' = Spawn(procs, "katapult_query", c)
    /\ Goto(c, "dc_katapult")
    /\ UNCHANGED <<dfu_lock, can_cache_fresh, dfu_cache_fresh>>
    /\ UNCHANGED taskVars
    /\ UNCHANGED auxVars

\* run_katapult_query returns (the tool ended, or the 5 s ran out), then
\* run_klipper_query starts its tool
discover_can_KatapultDone(c) ==
    /\ op[c].pc = "dc_katapult"
    /\ \E timed_out \in BOOLEAN :
          procs' = Spawn(IF timed_out THEN Orphan(procs, c) ELSE Reap(procs, c),
                         "klipper_query", c)
    /\ Goto(c, "dc_klipper")
    /\ UNCHANGED <<can_lock, dfu_lock, can_cache_fresh, dfu_cache_fresh>>
    /\ UNCHANGED taskVars
    /\ UNCHANGED auxVars

\* run_klipper_query returns; the results are merged and cached; the lock is left
discover_can_KlipperDone(c) ==
    /\ op[c].pc = "dc_klipper"
    /\ \E timed_out \in BOOLEAN :
          procs' = IF timed_out THEN Orphan(procs, c) ELSE Reap(procs, c)
    /\ can_cache_fresh' = TRUE
    /\ can_lock' = ReleaseLock(can_lock, c)
    /\ SetOp(c, [op[c] EXCEPT !.pc = "done", !.result = "queried"])
    /\ UNCHANGED <<dfu_lock, dfu_cache_fresh>>
    /\ UNCHANGED taskVars
    /\ UNCHANGED auxVars

(* reboot_to_katapult(method = "can"): an async generator *)
reboot_can_Wait(c) ==
    /\ op[c].pc = "rk_first"
    /\ Resumes(c)
    /\ Goto(c, "rk_wait")
    /\ UNCHANGED <<can_lock, dfu_lock, procs, can_cache_fresh, dfu_cache_fresh>>
    /\ UNCHANGED taskVars
    /\ UNCHANGED auxVars

reboot_can_Acquire(c) ==
    /\ op[c].pc = "rk_wait"
    /\ can_lock = "free"
    /\ can_lock' = c
    /\ Goto(c, "rk_locked")
    /\ UNCHANGED <<dfu_lock, procs, can_cache_fresh, dfu_cache_fresh>>
    /\ UNCHANGED taskVars
    /\ UNCHANGED auxVars

\* create_subprocess_exec of flashtool.py -r; an OSError leaves the
\* "async with" and reaches the consumer
reboot_can_Spawn(c) ==
    /\ op[c].pc = "rk_locked"
    /\ Resumes(c)
    /\ \/ /\ procs' = Spawn(procs, "flashtool_reboot", c)
          /\ Goto(c, "rk_tool")
          /\ UNCHANGED can_lock
       \/ /\ can_lock' = ReleaseLock(can_lock, c)
          /\ SetOp(c, [op[c] EXCEPT !.pc = "raised", !.result = "raised"])
          /\ UNCHANGED procs
    /\ UNCHANGED <<dfu_lock, can_cache_fresh, dfu_cache_fresh>>
    /\ UNCHANGED taskVars
    /\ UNCHANGED auxVars

reboot_can_ToolDone(c) ==
    /\ op[c].pc = "rk_tool"
    /\ procs' = Reap(procs, c)
    /\ Goto(c, "rk_out")
    /\ UNCHANGED <<can_lock, dfu_lock, can_cache_fresh, dfu_cache_fresh>>
    /\ UNCHANGED taskVars
    /\ UNCHANGED auxVars

reboot_can_Invalidate(c) ==
    /\ op[c].pc = "rk_out"
    /\ Resumes(c)
    /\ can_cache_fresh' = FALSE
    /\ Goto(c, "rk_rel")
    /\ UNCHANGED <<can_lock, dfu_lock, procs, dfu_cache_fresh>>
    /\ UNCHANGED taskVars
    /\ UNCHANGED auxVars

reboot_can_Release(c) ==
    /\ op[c].pc = "rk_rel"
    /\ Resumes(c)
    /\ can_lock' = ReleaseLock(can_lock, c)
    /\ SetOp(c, [op[c] EXCEPT !.pc = "done", !.result = "sent"])
    /\ UNCHANGED <<dfu_lock, procs, can_cache_fresh, dfu_cache_fresh>>
    /\ UNCHANGED taskVars
    /\ UNCHANGED auxVars

(* _run_flash_command: the tool writes a chunk, or ends with a return code *)
ToolChunk(c, at_tool, at_chunk) ==
    /\ op[c].pc = at_tool
    /\ Goto(c, at_chunk)
    /\ UNCHANGED <<can_lock, dfu_lock, procs, can_cache_fresh, dfu_cache_fresh>>
    /\ UNCHANGED taskVars
    /\ UNCHANGED auxVars

ToolResume(c, at_chunk, at_tool) ==
    /\ op[c].pc = at_chunk
    /\ Resumes(c)
    /\ Goto(c, at_tool)
    /\ UNCHANGED <<can_lock, dfu_lock, procs, can_cache_fresh, dfu_cache_fresh>>
    /\ UNCHANGED taskVars
    /\ UNCHANGED auxVars

(* flash_can: an async generator; its body starts with "async with" *)
flash_can_Acquire(c) ==
    /\ op[c].pc = "fc_wait"
    /\ can_lock = "free"
    /\ can_lock' = c
    /\ Goto(c, "fc_locked")
    /\ UNCHANGED <<dfu_lock, procs, can_cache_fresh, dfu_cache_fresh>>
    /\ UNCHANGED taskVars
    /\ UNCHANGED auxVars

flash_can_Spawn(c) ==
    /\ op[c].pc = "fc_locked"
    /\ Resumes(c)
    /\ \/ /\ procs' = Spawn(procs, "flashtool_flash", c)
          /\ Goto(c, "fc_tool")
          /\ UNCHANGED can_lock
       \/ /\ can_lock' = ReleaseLock(can_lock, c)
          /\ SetOp(c, [op[c] EXCEPT !.pc = "raised", !.result = "raised"])
          /\ UNCHANGED procs
    /\ UNCHANGED <<dfu_lock, can_cache_fresh, dfu_cache_fresh>>
    /\ UNCHANGED taskVars
    /\ UNCHANGED auxVars

flash_can_Chunk(c) == ToolChunk(c, "fc_tool", "fc_chunk")

flash_can_Resume(c) == ToolResume(c, "fc_chunk", "fc_tool")

flash_can_ToolDone(c) ==
    /\ op[c].pc = "fc_tool"
    /\ \E rc \in ReturnCodes :
          SetOp(c, [op[c] EXCEPT !.pc = "fc_status", !.rc = rc])
    /\ procs' = Reap(procs, c)
    /\ UNCHANGED <<can_lock, dfu_lock, can_cache_fresh, dfu_cache_fresh>>
    /\ UNCHANGED taskVars
    /\ UNCHANGED auxVars

flash_can_Invalidate(c) ==
    /\ op[c].pc = "fc_status"
    /\ Resumes(c)
    /\ can_cache_fresh' = FALSE
    /\ Goto(c, "fc_rel")
    /\ UNCHANGED <<can_lock, dfu_lock, procs, dfu_cache_fresh>>
    /\ UNCHANGED taskVars
    /\ UNCHANGED auxVars

flash_can_Release(c) ==
    /\ op[c].pc = "fc_rel"
    /\ Resumes(c)
    /\ can_lock' = ReleaseLock(can_lock, c)
    /\ SetOp(c, [op[c] EXCEPT !.pc = "done", !.result = "returned"])
    /\ UNCHANGED <<dfu_lock, procs, can_cache_fresh, dfu_cache_fresh>>
    /\ UNCHANGED taskVars
    /\ UNCHANGED auxVars

(* discover_dfu_devices: a coroutine, all of it under the DFU lock.  flash_dfu *)
(* calls it between two download attempts (nested): the call then returns     *)
(* into flash_dfu, which starts the next download.                            *)
discover_dfu_Return(c, o, ps) ==
    IF o.nested
    THEN /\ SetOp(c, [o EXCEPT !.kind = "flash_dfu", !.pc = "fd_tool", !.nested = FALSE,
                               !.redisc = @ + 1, !.downloads = @ + 1])
         /\ procs' = Spawn(ps, "dfu_download", c)
    ELSE /\ SetOp(c, [o EXCEPT !.pc = "done"])
         /\ procs' = ps

discover_dfu_Acquire(c) ==
    /\ op[c].pc = "dd_wait"
    /\ dfu_lock = "free"
    /\ IF dfu_cache_fresh
       THEN /\ discover_dfu_Return(c, [op[c] EXCEPT !.result = "cached"], procs)
            /\ UNCHANGED dfu_lock
       ELSE /\ dfu_lock' = c
            /\ procs' = Spawn(procs, "dfu_list", c)
            /\ Goto(c, "dd_list")
    /\ UNCHANGED <<can_lock, can_cache_fresh, dfu_cache_fresh>>
    /\ UNCHANGED taskVars
    /\ UNCHANGED auxVars

discover_dfu_ListDone(c) ==
    /\ op[c].pc = "dd_list"
    /\ dfu_cache_fresh' = TRUE
    /\ dfu_lock' = "free"
    /\ discover_dfu_Return(c, [op[c] EXCEPT !.result = "listed"], Reap(procs, c))
    /\ UNCHANGED <<can_lock, can_cache_fresh>>
    /\ UNCHANGED taskVars
    /\ UNCHANGED auxVars

(* flash_dfu: an async generator.  The first line is yielded before the lock  *)
(* is taken; the download is tried up to max_retries times; a retry sleeps,   *)
(* drops the cache and calls discover_dfu_devices.                            *)
flash_dfu_Wait(c) ==
    /\ op[c].pc = "fd_first"
    /\ Resumes(c)
    /\ Goto(c, "fd_wait")
    /\ UNCHANGED <<can_lock, dfu_lock, procs, can_cache_fresh, dfu_cache_fresh>>
    /\ UNCHANGED taskVars
    /\ UNCHANGED auxVars

\* the download (attempt 0) is started; an exception of the attempt is caught
\* inside the retry loop and yielded as a line
flash_dfu_Acquire(c) ==
    /\ op[c].pc = "fd_wait"
    /\ dfu_lock = "free"
    /\ dfu_lock' = c
    /\ dfu_cache_fresh' = FALSE
    /\ \/ /\ procs' = Spawn(procs, "dfu_download", c)
          /\ SetOp(c, [op[c] EXCEPT !.pc = "fd_tool", !.downloads = @ + 1])
       \/ /\ Goto(c, "fd_err")
          /\ UNCHANGED procs
    /\ UNCHANGED <<can_lock, can_cache_fresh>>
    /\ UNCHANGED taskVars
    /\ UNCHANGED auxVars

flash_dfu_Chunk(c) == ToolChunk(c, "fd_tool", "fd_chunk")

flash_dfu_Resume(c) == ToolResume(c, "fd_chunk", "fd_tool")

\* _run_flash_command yields "Flashing successful!" when the return code is
\* in ok_returncodes ({0} for a download) and "Flashing failed" otherwise
flash_dfu_ToolDone(c) ==
    /\ op[c].pc = "fd_tool"
    /\ \E rc \in ReturnCodes :
          SetOp(c, [op[c] EXCEPT !.pc = "fd_status", !.rc = rc])
    /\ procs' = Reap(procs, c)
    /\ UNCHANGED <<can_lock, dfu_lock, can_cache_fresh, dfu_cache_fresh>>
    /\ UNCHANGED taskVars
    /\ UNCHANGED auxVars

current_success(o) == o.pc = "fd_status" /\ o.rc \in {0}

\* after an attempt: break on success, else the next attempt or the end of the loop
flash_dfu_AfterAttempt(o) ==
    IF current_success(o)
    THEN [o EXCEPT !.flash_success = TRUE,
                   !.pc = IF o.leave THEN "fd_leave_msg" ELSE "fd_complete"]
    ELSE IF o.attempt + 1 < max_retries
         THEN [o EXCEPT !.attempt = @ + 1, !.pc = "fd_retry"]
         ELSE [o EXCEPT !.attempt = @ + 1, !.pc = "fd_failed"]

flash_dfu_Next(c) ==
    /\ op[c].pc \in {"fd_status", "fd_err"}
    /\ Resumes(c)
    /\ SetOp(c, flash_dfu_AfterAttempt(op[c]))
    /\ UNCHANGED <<can_lock, dfu_lock, procs, can_cache_fresh, dfu_cache_fresh>>
    /\ UNCHANGED taskVars
    /\ UNCHANGED auxVars

\* "Retry attempt" was consumed: sleep(2), _dfu_cache_time = 0.0, then
\* await self.discover_dfu_devices()
flash_dfu_Retry(c) ==
    /\ op[c].pc = "fd_retry"
    /\ Resumes(c)
    /\ dfu_cache_fresh' = FALSE
    /\ SetOp(c, [op[c] EXCEPT !.pc = "dd_wait", !.nested = TRUE])
    /\ UNCHANGED <<can_lock, dfu_lock, procs, can_cache_fresh>>
    /\ UNCHANGED taskVars
    /\ UNCHANGED auxVars

\* the leave command is started outside the retry loop's try: an OSError
\* leaves the generator
flash_dfu_Leave(c) ==
    /\ op[c].pc = "fd_leave_msg"
    /\ Resumes(c)
    /\ \/ /\ procs' = Spawn(procs, "dfu_leave", c)
          /\ Goto(c, "fd_leave_tool")
          /\ UNCHANGED dfu_lock
       \/ /\ dfu_lock' = ReleaseLock(dfu_lock, c)
          /\ SetOp(c, [op[c] EXCEPT !.pc = "raised", !.result = "raised"])
          /\ UNCHANGED procs
    /\ UNCHANGED <<can_lock, can_cache_fresh, dfu_cache_fresh>>
    /\ UNCHANGED taskVars
    /\ UNCHANGED auxVars

flash_dfu_LeaveChunk(c) == ToolChunk(c, "fd_leave_tool", "fd_leave_chunk")

flash_dfu_LeaveResume(c) == ToolResume(c, "fd_leave_chunk", "fd_leave_tool")

flash_dfu_LeaveDone(c) ==
    /\ op[c].pc = "fd_leave_tool"
    /\ \E rc \in ReturnCodes :
          SetOp(c, [op[c] EXCEPT !.pc = "fd_leave_status", !.rc = rc])
    /\ procs' = Reap(procs, c)
    /\ UNCHANGED <<can_lock, dfu_lock, can_cache_fresh, dfu_cache_fresh>>
    /\ UNCHANGED taskVars
    /\ UNCHANGED auxVars

flash_dfu_LeaveStatus(c) ==
    /\ op[c].pc = "fd_leave_status"
    /\ Resumes(c)
    /\ Goto(c, "fd_complete")
    /\ UNCHANGED <<can_lock, dfu_lock, procs, can_cache_fresh, dfu_cache_fresh>>
    /\ UNCHANGED taskVars
    /\ UNCHANGED auxVars

\* the generator ends: after "!!! Flash operation failed" by return, after
\* "Flash operation complete" with the cache dropped; the "async with" is left
flash_dfu_Return(c) ==
    /\ op[c].pc \in {"fd_failed", "fd_complete"}
    /\ Resumes(c)
    /\ dfu_cache_fresh' = (dfu_cache_fresh /\ op[c].pc = "fd_failed")
    /\ dfu_lock' = ReleaseLock(dfu_lock, c)
    /\ SetOp(c, [op[c] EXCEPT !.pc = "done",
                              !.result = IF op[c].pc = "fd_failed" THEN "failed" ELSE "complete"])
    /\ UNCHANGED <<can_lock, procs, can_cache_fresh>>
    /\ UNCHANGED taskVars
    /\ UNCHANGED auxVars

(* flash_serial: an async generator, no lock *)
flash_serial_Spawn(c) ==
    /\ op[c].pc = "fs_first"
    /\ Resumes(c)
    /\ \/ /\ procs' = Spawn(procs, "flashtool_serial", c)
          /\ Goto(c, "fs_tool")
       \/ /\ SetOp(c, [op[c] EXCEPT !.pc = "raised", !.result = "raised"])
          /\ UNCHANGED procs
    /\ UNCHANGED <<can_lock, dfu_lock, can_cache_fresh, dfu_cache_fresh>>
    /\ UNCHANGED taskVars
    /\ UNCHANGED auxVars

flash_serial_Chunk(c) == ToolChunk(c, "fs_tool", "fs_chunk")

flash_serial_Resume(c) == ToolResume(c, "fs_chunk", "fs_tool")

flash_serial_ToolDone(c) ==
    /\ op[c].pc = "fs_tool"
    /\ \E rc \in ReturnCodes :
          SetOp(c, [op[c] EXCEPT !.pc = "fs_status", !.rc = rc])
    /\ procs' = Reap(procs, c)
    /\ UNCHANGED <<can_lock, dfu_lock, can_cache_fresh, dfu_cache_fresh>>
    /\ UNCHANGED taskVars
    /\ UNCHANGED auxVars

flash_serial_Return(c) ==
    /\ op[c].pc = "fs_status"
    /\ Resumes(c)
    /\ SetOp(c, [op[c] EXCEPT !.pc = "done", !.result = "returned"])
    /\ UNCHANGED <<can_lock, dfu_lock, procs, can_cache_fresh, dfu_cache_fresh>>
    /\ UNCHANGED taskVars
    /\ UNCHANGED auxVars

(* flash_linux: an async generator; every failure is caught inside and       *)
(* yielded as a line                                                         *)
flash_linux_Install(c) ==
    /\ op[c].pc = "fl_first"
    /\ Resumes(c)
    /\ \E rc \in ReturnCodes :
          SetOp(c, [op[c] EXCEPT !.pc = "fl_status", !.rc = rc])
    /\ UNCHANGED <<can_lock, dfu_lock, procs, can_cache_fresh, dfu_cache_fresh>>
    /\ UNCHANGED taskVars
    /\ UNCHANGED auxVars

flash_linux_Return(c) ==
    /\ op[c].pc = "fl_status"
    /\ Resumes(c)
    /\ SetOp(c, [op[c] EXCEPT !.pc = "done", !.result = "returned"])
    /\ UNCHANGED <<can_lock, dfu_lock, procs, can_cache_fresh, dfu_cache_fresh>>
    /\ UNCHANGED taskVars
    /\ UNCHANGED auxVars

(* reboot_device, mode "service": the transitions back to the application.   *)
(* method can: the frame sender is spawned; method dfu: dfu-util -U with     *)
(* ":leave".  Neither takes a lock.                                          *)
jump_can_Spawn(c) ==
    /\ op[c].pc = "jc_first"
    /\ Resumes(c)
    /\ \/ /\ procs' = Spawn(procs, "jump_sender", c)
          /\ Goto(c, "jc_tool")
       \/ /\ SetOp(c, [op[c] EXCEPT !.pc = "raised", !.result = "raised"])
          /\ UNCHANGED procs
    /\ UNCHANGED <<can_lock, dfu_lock, can_cache_fresh, dfu_cache_fresh>>
    /\ UNCHANGED taskVars
    /\ UNCHANGED auxVars

jump_can_ToolDone(c) ==
    /\ op[c].pc = "jc_tool"
    /\ procs' = Reap(procs, c)
    /\ Goto(c, "jc_out")
    /\ UNCHANGED <<can_lock, dfu_lock, can_cache_fresh, dfu_cache_fresh>>
    /\ UNCHANGED taskVars
    /\ UNCHANGED auxVars

jump_can_Return(c) ==
    /\ op[c].pc = "jc_out"
    /\ Resumes(c)
    /\ SetOp(c, [op[c] EXCEPT !.pc = "done", !.result = "sent"])
    /\ UNCHANGED <<can_lock, dfu_lock, procs, can_cache_fresh, dfu_cache_fresh>>
    /\ UNCHANGED taskVars
    /\ UNCHANGED auxVars

leave_dfu_Spawn(c) ==
    /\ op[c].pc = "ld_first"
    /\ Resumes(c)
    /\ \/ /\ procs' = Spawn(procs, "dfu_leave_upload", c)
          /\ Goto(c, "ld_tool")
       \/ /\ SetOp(c, [op[c] EXCEPT !.pc = "raised", !.result = "raised"])
          /\ UNCHANGED procs
    /\ UNCHANGED <<can_lock, dfu_lock, can_cache_fresh, dfu_cache_fresh>>
    /\ UNCHANGED taskVars
    /\ UNCHANGED auxVars

leave_dfu_ToolDone(c) ==
    /\ op[c].pc = "ld_tool"
    /\ \E rc \in ReturnCodes :
          SetOp(c, [op[c] EXCEPT !.pc = "ld_out", !.rc = rc])
    /\ procs' = Reap(procs, c)
    /\ UNCHANGED <<can_lock, dfu_lock, can_cache_fresh, dfu_cache_fresh>>
    /\ UNCHANGED taskVars
    /\ UNCHANGED auxVars

\* "Leave request sent" when process.returncode == 0, else "Reboot command failed"
leave_dfu_Return(c) ==
    /\ op[c].pc = "ld_out"
    /\ Resumes(c)
    /\ SetOp(c, [op[c] EXCEPT !.pc = "done",
                              !.result = IF op[c].rc = 0
                                         THEN "leave_sent" ELSE "leave_failed"])
    /\ UNCHANGED <<can_lock, dfu_lock, procs, can_cache_fresh, dfu_cache_fresh>>
    /\ UNCHANGED taskVars
    /\ UNCHANGED auxVars

(* The consumer leaves its "async for" at a yield: the generator stays       *)
(* suspended, with the lock it holds and the process it started, until the   *)
(* event loop's finalizer closes it (aclose): the "async with" is left, the  *)
(* process is not ended.                                                     *)
Abandoned(o) == [o EXCEPT !.pc = "abandoned"]

\* a finalizer that would leave the "async with" unfinished
agen_Finalize_keeping_lock(c) ==
    /\ op[c].pc = "abandoned"
    /\ procs' = Orphan(procs, c)
    /\ SetOp(c, IdleOp)
    /\ UNCHANGED <<can_lock, dfu_lock, can_cache_fresh, dfu_cache_fresh>>
    /\ UNCHANGED taskVars
    /\ UNCHANGED auxVars

agen_Finalize(c) ==
    /\ op[c].pc = "abandoned"
    /\ can_lock' = ReleaseLock(can_lock, c)
    /\ dfu_lock' = ReleaseLock(dfu_lock, c)
    /\ procs' = Orphan(procs, c)
    /\ SetOp(c, IdleOp)
    /\ UNCHANGED <<can_cache_fresh, dfu_cache_fresh>>
    /\ UNCHANGED taskVars
    /\ UNCHANGED auxVars

\* a process nobody awaits ends by itself
OrphanExit ==
    /\ \E p \in procs : p.owner = "orphan" /\ procs' = procs \ {p}
    /\ UNCHANGED <<op, can_lock, dfu_lock, can_cache_fresh, dfu_cache_fresh>>
    /\ UNCHANGED taskVars
    /\ UNCHANGED auxVars

\* time passes: a cache entry grows older than its TTL
CacheExpire ==
    /\ can_cache_fresh \/ dfu_cache_fresh
    /\ \/ can_cache_fresh /\ can_cache_fresh' = FALSE /\ UNCHANGED dfu_cache_fresh
       \/ dfu_cache_fresh /\ dfu_cache_fresh' = FALSE /\ UNCHANGED can_cache_fresh
    /\ UNCHANGED <<op, can_lock, dfu_lock, procs>>
    /\ UNCHANGED taskVars
    /\ UNCHANGED auxVars

OpStep(c) ==
    \/ discover_can_CacheTest(c) \/ discover_can_Acquire(c)
    \/ discover_can_KatapultDone(c) \/ discover_can_KlipperDone(c)
    \/ reboot_can_Wait(c) \/ reboot_can_Acquire(c) \/ reboot_can_Spawn(c)
    \/ reboot_can_ToolDone(c) \/ reboot_can_Invalidate(c) \/ reboot_can_Release(c)
    \/ flash_can_Acquire(c) \/ flash_can_Spawn(c) \/ flash_can_Chunk(c)
    \/ flash_can_Resume(c) \/ flash_can_ToolDone(c) \/ flash_can_Invalidate(c)
    \/ flash_can_Release(c)
    \/ discover_dfu_Acquire(c) \/ discover_dfu_ListDone(c)
    \/ flash_dfu_Wait(c) \/ flash_dfu_Acquire(c) \/ flash_dfu_Chunk(c)
    \/ flash_dfu_Resume(c) \/ flash_dfu_ToolDone(c) \/ flash_dfu_Next(c)
    \/ flash_dfu_Retry(c) \/ flash_dfu_Leave(c)
    \/ flash_dfu_LeaveChunk(c) \/ flash_dfu_LeaveResume(c) \/ flash_dfu_LeaveDone(c)
    \/ flash_dfu_LeaveStatus(c) \/ flash_dfu_Return(c)
    \/ agen_Finalize(c)

----------------------------------------------------------------------------
(* SpecBus: concurrent requests running bus operations *)

\* GET /devices/discover, GET /fleet, POST /flash, POST /flash/reboot and the
\* batch task reach the buses through these operations
BusOps ==
    { StartOp("discover_can", "dc_ensure"),
      [StartOp("discover_can", "dc_ensure") EXCEPT !.force = TRUE],
      StartOp("reboot_can", "rk_first"),
      StartOp("flash_can", "fc_wait"),
      StartOp("discover_dfu", "dd_wait"),
      StartOp("flash_dfu", "fd_first"),
      [StartOp("flash_dfu", "fd_first") EXCEPT !.leave = TRUE],
      StartOp("jump_can", "jc_first"),
      StartOp("leave_dfu", "ld_first") }

request_Start(c) ==
    /\ op[c].pc = "idle"
    /\ \E o \in BusOps : SetOp(c, o)
    /\ UNCHANGED <<can_lock, dfu_lock, procs, can_cache_fresh, dfu_cache_fresh>>
    /\ UNCHANGED taskVars
    /\ UNCHANGED auxVars

\* the operation returned or raised: the request ends
request_Finish(c) ==
    /\ op[c].pc \in {"done", "raised"}
    /\ SetOp(c, IdleOp)
    /\ UNCHANGED <<can_lock, dfu_lock, procs, can_cache_fresh, dfu_cache_fresh>>
    /\ UNCHANGED taskVars
    /\ UNCHANGED auxVars

\* the consumer stops reading the stream (its task was cancelled)
request_Abandon(c) ==
    /\ AtYield(c)
    /\ SetOp(c, Abandoned(op[c]))
    /\ UNCHANGED <<can_lock, dfu_lock, procs, can_cache_fresh, dfu_cache_fresh>>
    /\ UNCHANGED taskVars
    /\ UNCHANGED auxVars

RequestStep(c) ==
    \/ request_Start(c) \/ request_Finish(c) \/ request_Abandon(c)
    \/ jump_can_Spawn(c) \/ jump_can_ToolDone(c) \/ jump_can_Return(c)
    \/ leave_dfu_Spawn(c) \/ leave_dfu_ToolDone(c) \/ leave_dfu_Return(c)

InitBus ==
    /\ tasks = <<>>
    /\ bt = <<>>
    /\ services = "running"
    /\ op = [c \in Requests |-> IdleOp]
    /\ can_lock = "free"
    /\ dfu_lock = "free"
    /\ procs = {}
    /\ can_cache_fresh = FALSE
    /\ dfu_cache_fresh = FALSE
    /\ gf = NoRequest
    /\ loop = LoopStart
    /\ scan = NoScan
    /\ registry = NoRegistry
    /\ call = NoCall

NextBus ==
    \/ \E c \in Requests : OpStep(c) \/ RequestStep(c)
    \/ OrphanExit
    \/ CacheExpire

SpecBus == InitBus /\ [][NextBus]_vars


----------------------------------------------------------------------------
(* The batch orchestrator: batch_operation.run_task *)

\* a fleet registry entry; a device's profile is named after the device
Device(name, method, is_bridge, profile, exclude_from_batch) ==
    [name |-> name, id |-> name, method |-> method, is_bridge |-> is_bridge,
     profile |-> profile, exclude_from_batch |-> exclude_from_batch]

Catalog ==
    { Device("toolhead", "can", FALSE, TRUE, FALSE),
      Device("bridge", "can", TRUE, TRUE, FALSE),
      Device("dfubridge", "dfu", TRUE, TRUE, FALSE),
      Device("dfuboard", "dfu", FALSE, TRUE, FALSE),
      Device("host", "linux", FALSE, TRUE, FALSE) }

MaxFleet == 2

IsInjective(f) == \A i, j \in DOMAIN f : f[i] = f[j] => i = j

\* fleet_mgr.get_fleet(): the registry, in registry order
Fleets == {f \in UNION {[1..n -> Catalog] : n \in 0..MaxFleet} : IsInjective(f)}

Actions == {"build", "flash-ready", "flash-all", "build-flash-all"}

\* the words w for which the source's test `w in action` is true
Words(action) ==
    CASE action = "build" -> {"build"}
      [] action = "flash-ready" -> {"flash", "flash-ready"}
      [] action = "flash-all" -> {"flash", "flash-all"}
      [] action = "build-flash-all" -> {"build", "flash", "flash-all"}

\* range(wait_time // 2) with wait_time 30, and 60 when a device needs a
\* manual DFU entry: the iterations of the wait loop
WaitPolls == 1
wait_polls(has_manual_dfu) == IF has_manual_dfu THEN 2 * WaitPolls ELSE WaitPolls

\* range(30): the iterations of the wait for a bridge to reappear
BridgePolls == 1

\* the devices of a fleet that is both built and flashed
MaxBuildFlashFleet == 1

\* cancel requests the user sends to one task
MaxCancels == 1

NotExcluded(d) == ~d.exclude_from_batch
NonBridge(d) == ~d.is_bridge
IsBridge(d) == d.is_bridge

\* the devices as the registry lists them
sorted_devices_registry_order(devices) == devices

\* sorted(devices, key=lambda x: 1 if x.get('is_bridge') else 0): a stable sort
sorted_devices(devices) == SelectSeq(devices, NonBridge) \o SelectSeq(devices, IsBridge)

\* what check_device_status can answer for a device
Statuses(dev) ==
    CASE dev.is_bridge -> {"ready", "service", "offline"}
      [] dev.method = "linux" -> {"service", "ready"}
      [] dev.method = "dfu" -> {"dfu", "service", "offline"}
      [] OTHER -> {"ready", "service", "offline"}

\* the status of a device that entered its flash mode
ReadyStatus(dev) == IF dev.method = "dfu" THEN "dfu" ELSE "ready"

Put(f, k, v) == [x \in (DOMAIN f) \cup {k} |-> IF x = k THEN v ELSE f[x]]

NewFrame(action, fleet) ==
    [pc |-> "start", action |-> action, devices |-> fleet,
     services_stopped |-> FALSE, build_results |-> <<>>, flash_results |-> <<>>,
     reboot_tasks |-> <<>>, has_manual_dfu |-> FALSE, i |-> 1, polls |-> 0,
     sorted_devices |-> <<>>,
     \* history: the devices the flash wave took up, the step whose
     \* exception reached the task's except clause, and where the task was
     \* when its cancellation bit was set
     processed |-> <<>>, exc |-> "none", cancel_pc |-> "none",
     \* history: the status check_device_status gave each device in the
     \* flash wave
     computed |-> <<>>]

\* "return" inside the try: control goes to the finally clause
Return(b) == [b EXCEPT !.pc = "finally"]

\* an exception leaves the try: control goes to the except clause
Raise(b, origin) == [b EXCEPT !.pc = "except", !.exc = origin]

Cancelled == is_cancelled(tasks, BatchId)

BatchOpIdle == op["batch"].pc = "idle"

\* the flash phase is entered, or the summary when the action has no flash
AfterBuild(b) ==
    [b EXCEPT !.pc = IF "flash" \in Words(b.action) THEN "flash_begin" ELSE "summary"]

bt_Start ==
    /\ bt.pc = "start"
    /\ bt' = IF "build" \in Words(bt.action)
             THEN IF Cancelled THEN Return(bt) ELSE [bt EXCEPT !.pc = "build", !.i = 1]
             ELSE AfterBuild(bt)
    /\ UNCHANGED <<tasks, services>>
    /\ UNCHANGED busVars
    /\ UNCHANGED auxVars

Profiled(devices) == SelectSeq(devices, LAMBDA d : d.profile)

\* the lines of run_build that decide a build
BuildLines == {">>> Build successful!", ">>> Build failed with return code", "!!! Error"}

\* "!!! Error" in log or "!!! Build failed" in log
build_failed(log) == log \in {"!!! Error", "!!! Build failed"}

\* one profile of the build phase: the cancel checks, run_build, the result.
\* Starting make can raise: the exception leaves run_task's try.
bt_Build ==
    /\ bt.pc = "build"
    /\ LET profiles == Profiled(bt.devices) IN
       IF bt.i > Len(profiles) THEN bt' = AfterBuild(bt)
       ELSE IF Cancelled THEN bt' = Return(bt)
       ELSE \/ \E log \in BuildLines :
                 bt' = [bt EXCEPT !.i = @ + 1,
                                  !.build_results =
                                      Put(@, profiles[bt.i].name,
                                          IF build_failed(log) THEN "FAILED" ELSE "SUCCESS")]
            \/ bt' = Raise(bt, "build")
    /\ UNCHANGED <<tasks, services>>
    /\ UNCHANGED busVars
    /\ UNCHANGED auxVars

ExcludedResults(devices) ==
    [n \in {devices[k].name : k \in {j \in DOMAIN devices : devices[j].exclude_from_batch}}
        |-> "EXCLUDED"]

\* the flash phase begins: is_bus_task, the exclusion filter, and the CAN
\* pre-discovery is called
bt_FlashBegin ==
    /\ bt.pc = "flash_begin"
    /\ BatchOpIdle
    /\ IF Cancelled
       THEN /\ bt' = Return(bt)
            /\ UNCHANGED <<tasks, op>>
       ELSE /\ tasks' = [tasks EXCEPT ![BatchId].is_bus_task = TRUE]
            /\ bt' = [bt EXCEPT !.pc = "pre_discover",
                                !.devices = SelectSeq(bt.devices, NotExcluded),
                                !.flash_results = ExcludedResults(bt.devices)]
            /\ SetOp("batch", StartOp("discover_can", "dc_ensure"))
    /\ UNCHANGED <<services, can_lock, dfu_lock, procs, can_cache_fresh, dfu_cache_fresh>>
    /\ UNCHANGED auxVars

bt_PreDiscovered ==
    /\ bt.pc = "pre_discover"
    /\ op["batch"].pc = "done"
    /\ SetOp("batch", IdleOp)
    /\ bt' = [bt EXCEPT !.pc = "pre_status", !.i = 1]
    /\ UNCHANGED <<tasks, services, can_lock, dfu_lock, procs, can_cache_fresh, dfu_cache_fresh>>
    /\ UNCHANGED auxVars

\* the reboot wave without the test of is_bridge
needs_reboot_with_bridges(dev, status) ==
    status = "service" /\ dev.method \in {"can", "serial", "dfu"}

\* the devices the reboot wave takes: in service, not a bridge, method can,
\* serial or dfu
needs_reboot(dev, status) ==
    status = "service" /\ ~dev.is_bridge /\ dev.method \in {"can", "serial", "dfu"}

\* one device of the status loop before the services are stopped
bt_PreStatus ==
    /\ bt.pc = "pre_status"
    /\ bt.i <= Len(bt.devices)
    /\ LET dev == bt.devices[bt.i] IN
       IF Cancelled THEN bt' = Return(bt) /\ UNCHANGED tasks
       ELSE IF ~dev.profile THEN bt' = [bt EXCEPT !.i = @ + 1] /\ UNCHANGED tasks
       ELSE \E status \in Statuses(dev) :
              /\ tasks' = update_device_status(tasks, BatchId, dev.name, status)
              /\ bt' = [bt EXCEPT !.i = @ + 1,
                                  !.reboot_tasks = IF needs_reboot(dev, status)
                                                   THEN Append(@, dev) ELSE @]
    /\ UNCHANGED services
    /\ UNCHANGED busVars
    /\ UNCHANGED auxVars

\* the flash wave is entered: the devices are sorted
EnterFlashWave(b) ==
    [b EXCEPT !.pc = "flash_next", !.i = 1, !.sorted_devices = sorted_devices(b.devices)]

\* the services are stopped; the reboot wave is entered when it has work
bt_StopServices ==
    /\ bt.pc = "pre_status"
    /\ bt.i > Len(bt.devices)
    /\ services' = "stopped"
    /\ tasks' = add_log(tasks, BatchId, "services stop")
    /\ LET b == [bt EXCEPT !.services_stopped = TRUE] IN
       bt' = IF b.reboot_tasks # <<>>
             THEN IF Cancelled THEN Return(b) ELSE [b EXCEPT !.pc = "reboot", !.i = 1]
             ELSE EnterFlashWave(b)
    /\ UNCHANGED busVars
    /\ UNCHANGED auxVars

\* one entry of the reboot wave: a DFU device without the magic-baud option
\* needs a manual entry; a CAN device is sent to its bootloader
bt_Reboot ==
    /\ bt.pc = "reboot"
    /\ BatchOpIdle
    /\ IF bt.i > Len(bt.reboot_tasks)
       THEN /\ bt' = [bt EXCEPT !.pc = "wait", !.polls = 0]
            /\ tasks' = add_log(tasks, BatchId, ">>> Waiting for devices to enter flash mode")
            /\ UNCHANGED op
       ELSE IF Cancelled THEN bt' = Return(bt) /\ UNCHANGED <<tasks, op>>
       ELSE IF bt.reboot_tasks[bt.i].method = "dfu"
       THEN /\ bt' = [bt EXCEPT !.has_manual_dfu = TRUE, !.i = @ + 1]
            /\ tasks' = add_log(tasks, BatchId, ">>> MANUAL DFU ENTRY REQUIRED")
            /\ UNCHANGED op
       ELSE /\ bt' = [bt EXCEPT !.pc = "reboot_run"]
            /\ tasks' = add_log(tasks, BatchId, ">>> Requesting Katapult reboot")
            /\ SetOp("batch", StartOp("reboot_can", "rk_first"))
    /\ UNCHANGED <<services, can_lock, dfu_lock, procs, can_cache_fresh, dfu_cache_fresh>>
    /\ UNCHANGED auxVars

\* reboot_to_katapult is exhausted, or its exception leaves run_task's try
bt_RebootDone ==
    /\ bt.pc = "reboot_run"
    /\ op["batch"].pc \in {"done", "raised"}
    /\ bt' = IF op["batch"].pc = "raised" THEN Raise(bt, "reboot")
             ELSE [bt EXCEPT !.pc = "reboot", !.i = @ + 1]
    /\ SetOp("batch", IdleOp)
    /\ UNCHANGED <<tasks, services, can_lock, dfu_lock, procs, can_cache_fresh, dfu_cache_fresh>>
    /\ UNCHANGED auxVars

\* "if task_store.is_cancelled(task_id): return" inside an "async for": the
\* generator is left suspended at its yield
bt_Abandon ==
    /\ bt.pc \in {"reboot_run", "bridge_reboot", "flash_run"}
    /\ AtYield("batch")
    /\ Cancelled
    /\ bt' = Return(bt)
    /\ SetOp("batch", Abandoned(op["batch"]))
    /\ UNCHANGED <<tasks, services, can_lock, dfu_lock, procs, can_cache_fresh, dfu_cache_fresh>>
    /\ UNCHANGED auxVars

Names(devs, idx) == {devs[k].name : k \in idx}

\* the statuses one poll of the wait loop writes: the devices of `entered`
\* are in their flash mode, the others still in service
PollStatuses(ds, devs, entered) ==
    [n \in (DOMAIN ds) \cup Names(devs, DOMAIN devs) |->
        IF n \in Names(devs, entered) THEN ReadyStatus(CHOOSE d \in Catalog : d.name = n)
        ELSE IF n \in Names(devs, DOMAIN devs) THEN "service"
        ELSE ds[n]]

\* the head of one iteration of the wait for the rebooted devices: the loop
\* is exhausted, or the cancel check, then "await asyncio.sleep(2)"
bt_WaitSleep ==
    /\ bt.pc = "wait"
    /\ bt' = IF bt.polls >= wait_polls(bt.has_manual_dfu) THEN EnterFlashWave(bt)
             ELSE IF Cancelled THEN Return(bt)
             ELSE [bt EXCEPT !.pc = "wait_poll"]
    /\ UNCHANGED <<tasks, services>>
    /\ UNCHANGED busVars
    /\ UNCHANGED auxVars

\* the rest of the iteration, after the sleep: the statuses of the rebooted
\* devices are written and the progress line is logged
bt_WaitPoll ==
    /\ bt.pc = "wait_poll"
    /\ \E entered \in SUBSET DOMAIN bt.reboot_tasks :
          LET ready == entered = DOMAIN bt.reboot_tasks
              ts == [tasks EXCEPT ![BatchId].device_statuses =
                                      PollStatuses(@, bt.reboot_tasks, entered)]
          IN  /\ tasks' = add_log(ts, BatchId,
                                  IF ready THEN ">>> All hardware devices ready!"
                                  ELSE ">>> hardware devices ready... (waiting)")
              /\ bt' = IF ready THEN EnterFlashWave(bt)
                       ELSE [bt EXCEPT !.pc = "wait", !.polls = @ + 1]
    /\ UNCHANGED services
    /\ UNCHANGED busVars
    /\ UNCHANGED auxVars

\* a device of the flash wave got its result: the loop goes on
Result(b, name, result) ==
    [b EXCEPT !.flash_results = Put(@, name, result), !.i = @ + 1, !.pc = "flash_next"]

should_flash(action, status) ==
    \/ "flash-all" \in Words(action)
    \/ "flash-ready" \in Words(action) /\ status = "ready"

\* the exception of a flash step reaches the task's except clause
FlashRaised_aborts(b, name) == Raise(b, "flash")

\* the "except Exception" around one device's flash step
FlashRaised(b, name) == Result(b, name, "FAILED")

\* f"SKIPPED ({status})"
skipped(status) == "SKIPPED (" \o status \o ")"

\* the device's status is known: skip it, miss its firmware, or mark it
\* "flashing"
FlashGate(b, ts, dev, status, firmware_exists) ==
    IF status \notin {"ready", "dfu"} /\ dev.method # "linux"
    THEN [bt |-> Result(b, dev.name, skipped(status)), tasks |-> ts]
    ELSE IF ~firmware_exists
    THEN [bt |-> Result(b, dev.name, "FAILED (no firmware)"), tasks |-> ts]
    ELSE [bt |-> [b EXCEPT !.pc = "flash_prepare"],
          tasks |-> update_device_status(ts, BatchId, dev.id, "flashing")]

\* one device of the flash wave, up to the point where its flash begins
bt_FlashNext ==
    /\ bt.pc = "flash_next"
    /\ BatchOpIdle
    /\ IF bt.i > Len(bt.sorted_devices)
       THEN /\ bt' = [bt EXCEPT !.pc = "summary"]
            /\ tasks' = add_log(tasks, BatchId, ">>> BATCH FLASH COMPLETED <<<")
            /\ UNCHANGED op
       ELSE IF Cancelled THEN bt' = Return(bt) /\ UNCHANGED <<tasks, op>>
       ELSE IF ~bt.sorted_devices[bt.i].profile
       THEN bt' = [bt EXCEPT !.i = @ + 1] /\ UNCHANGED <<tasks, op>>
       ELSE \E status \in Statuses(bt.sorted_devices[bt.i]), firmware_exists \in BOOLEAN :
              LET dev == bt.sorted_devices[bt.i]
                  ts == update_device_status(tasks, BatchId, dev.id, status)
                  b == [bt EXCEPT !.processed = Append(@, dev.name),
                                  !.computed = Put(@, dev.name, status)]
              IN  IF ~should_flash(bt.action, status)
                  THEN /\ bt' = Result(b, dev.name, "SKIPPED")
                       /\ tasks' = ts
                       /\ UNCHANGED op
                  ELSE IF dev.is_bridge /\ status = "service" /\ dev.method = "dfu"
                  THEN /\ bt' = [b EXCEPT !.pc = "bridge_dfu_reboot"]
                       /\ tasks' = ts
                       /\ UNCHANGED op
                  ELSE IF dev.is_bridge /\ status = "service"
                  THEN /\ bt' = [b EXCEPT !.pc = "bridge_reboot"]
                       /\ tasks' = ts
                       /\ SetOp("batch", StartOp("reboot_can", "rk_first"))
                  ELSE /\ bt' = FlashGate(b, ts, dev, status, firmware_exists).bt
                       /\ tasks' = FlashGate(b, ts, dev, status, firmware_exists).tasks
                       /\ UNCHANGED op
    /\ UNCHANGED <<services, can_lock, dfu_lock, procs, can_cache_fresh, dfu_cache_fresh>>
    /\ UNCHANGED auxVars

bt_BridgeRebooted ==
    /\ bt.pc = "bridge_reboot"
    /\ op["batch"].pc \in {"done", "raised"}
    /\ bt' = IF op["batch"].pc = "raised" THEN Raise(bt, "reboot")
             ELSE [bt EXCEPT !.pc = "bridge_wait", !.polls = 0]
    /\ SetOp("batch", IdleOp)
    /\ UNCHANGED <<tasks, services, can_lock, dfu_lock, procs, can_cache_fresh, dfu_cache_fresh>>
    /\ UNCHANGED auxVars

\* the ids under which a rebooted bridge can be met: serial paths (its
\* bootloader, its firmware) and DFU enumeration ids (the first one listed,
\* the one the registry knows as dfu_id)
SerialIds == {"usb-katapult_bridge", "usb-Klipper_bridge"}
DfuIds == {"dfu_first", "dfu_known"}

\* dev['id'] = new_device; dev['method'] = "serial"
adopt_serial(dev, new_device) == [dev EXCEPT !.id = new_device, !.method = "serial"]

\* dev['id'] = dfu_device
adopt_dfu(dev, dfu_device) == [dev EXCEPT !.id = dfu_device]

\* one iteration of the wait for the bridge to reappear as a serial device
bt_BridgeWait ==
    /\ bt.pc = "bridge_wait"
    /\ LET dev == bt.sorted_devices[bt.i] IN
       IF bt.polls >= BridgePolls
       THEN /\ bt' = Result(bt, dev.name, "FAILED (Katapult timeout)")
            /\ UNCHANGED tasks
       ELSE IF Cancelled THEN bt' = Return(bt) /\ UNCHANGED tasks
       ELSE \E new_device \in {"none"} \cup SerialIds, firmware_exists \in BOOLEAN :
              IF new_device # "none"
              THEN LET b == [bt EXCEPT !.sorted_devices[bt.i] = adopt_serial(@, new_device)]
                       g == FlashGate(b, tasks, b.sorted_devices[bt.i], "ready", firmware_exists)
                   IN  bt' = g.bt /\ tasks' = g.tasks
              ELSE bt' = [bt EXCEPT !.polls = @ + 1] /\ UNCHANGED tasks
    /\ UNCHANGED services
    /\ UNCHANGED busVars
    /\ UNCHANGED auxVars

\* a DFU bridge in service: resolve_serial_id, reboot_to_dfu (the 1200 bps
\* trick on the serial port, no bus lock), then the wait for it begins
bt_BridgeDfuReboot ==
    /\ bt.pc = "bridge_dfu_reboot"
    /\ bt' = IF Cancelled THEN Return(bt) ELSE [bt EXCEPT !.pc = "bridge_dfu_wait", !.polls = 0]
    /\ UNCHANGED <<tasks, services>>
    /\ UNCHANGED busVars
    /\ UNCHANGED auxVars

\* the head of one iteration of the wait for a DFU device: the loop is
\* exhausted, or the cancel check, the sleep and the call of
\* discover_dfu_devices
bt_BridgeDfuPoll ==
    /\ bt.pc = "bridge_dfu_wait"
    /\ BatchOpIdle
    /\ IF bt.polls >= BridgePolls
       THEN /\ bt' = Result(bt, bt.sorted_devices[bt.i].name, "FAILED (DFU timeout)")
            /\ UNCHANGED op
       ELSE IF Cancelled THEN bt' = Return(bt) /\ UNCHANGED op
       ELSE /\ bt' = [bt EXCEPT !.pc = "bridge_dfu_list"]
            /\ SetOp("batch", StartOp("discover_dfu", "dd_wait"))
    /\ UNCHANGED <<tasks, services, can_lock, dfu_lock, procs, can_cache_fresh, dfu_cache_fresh>>
    /\ UNCHANGED auxVars

\* discover_dfu_devices returned: with a DFU device listed, the first one
\* is adopted as the bridge
bt_BridgeDfuListed ==
    /\ bt.pc = "bridge_dfu_list"
    /\ op["batch"].pc = "done"
    /\ SetOp("batch", IdleOp)
    /\ \E dfu_device \in {"none"} \cup DfuIds, firmware_exists \in BOOLEAN :
          IF dfu_device # "none"
          THEN LET b == [bt EXCEPT !.sorted_devices[bt.i] = adopt_dfu(@, dfu_device)]
                   g == FlashGate(b, tasks, b.sorted_devices[bt.i], "ready", firmware_exists)
               IN  bt' = g.bt /\ tasks' = g.tasks
          ELSE bt' = [bt EXCEPT !.pc = "bridge_dfu_wait", !.polls = @ + 1] /\ UNCHANGED tasks
    /\ UNCHANGED <<services, can_lock, dfu_lock, procs, can_cache_fresh, dfu_cache_fresh>>
    /\ UNCHANGED auxVars

\* what resolve_serial_id can return for a device id: the id itself when its
\* path exists or nothing matches, a serial path that matches otherwise
resolve_serial_id(device_id) ==
    IF device_id \in SerialIds THEN SerialIds ELSE {device_id}

\* what resolve_dfu_id can return for a device id and the devices listed:
\* the known dfu_id, the id itself, or the only device listed
resolve_dfu_id(device_id) ==
    IF device_id \in DfuIds THEN DfuIds ELSE {device_id}

\* after "flashing" was written: the awaits before the flash generator
\* (resolve_serial_id, is_interface_up, resolve_dfu_id) and the flash call
bt_FlashPrepare ==
    /\ bt.pc = "flash_prepare"
    /\ BatchOpIdle
    /\ LET dev == bt.sorted_devices[bt.i] IN
       CASE dev.method = "serial" ->
              /\ \E resolved_id \in resolve_serial_id(dev.id) :
                    SetOp("batch", [StartOp("flash_serial", "fs_first")
                                       EXCEPT !.device_id = resolved_id])
              /\ bt' = [bt EXCEPT !.pc = "flash_run"]
              /\ UNCHANGED tasks
         [] dev.method = "can" ->
              \E is_interface_up \in BOOLEAN :
                 IF is_interface_up
                 THEN /\ SetOp("batch", [StartOp("flash_can", "fc_wait")
                                             EXCEPT !.device_id = dev.id])
                      /\ bt' = [bt EXCEPT !.pc = "flash_run"]
                      /\ UNCHANGED tasks
                 ELSE /\ bt' = FlashRaised(bt, dev.name)
                      /\ tasks' = update_device_status(tasks, BatchId, dev.id, "failed")
                      /\ UNCHANGED op
         [] dev.method = "dfu" ->
              /\ SetOp("batch", StartOp("discover_dfu", "dd_wait"))
              /\ bt' = [bt EXCEPT !.pc = "flash_resolve"]
              /\ UNCHANGED tasks
         [] dev.method = "linux" ->
              /\ SetOp("batch", StartOp("flash_linux", "fl_first"))
              /\ bt' = [bt EXCEPT !.pc = "flash_run"]
              /\ UNCHANGED tasks
    /\ UNCHANGED <<services, can_lock, dfu_lock, procs, can_cache_fresh, dfu_cache_fresh>>
    /\ UNCHANGED auxVars

\* resolve_dfu_id returned: flash_dfu is called, leave = use_dfu_exit (True)
bt_FlashResolved ==
    /\ bt.pc = "flash_resolve"
    /\ op["batch"].pc = "done"
    /\ \E resolved_id \in resolve_dfu_id(bt.sorted_devices[bt.i].id) :
          SetOp("batch", [StartOp("flash_dfu", "fd_first")
                             EXCEPT !.leave = TRUE, !.device_id = resolved_id])
    /\ bt' = [bt EXCEPT !.pc = "flash_run"]
    /\ UNCHANGED <<tasks, services, can_lock, dfu_lock, procs, can_cache_fresh, dfu_cache_fresh>>
    /\ UNCHANGED auxVars

\* whether the flash the operation ran did succeed
Succeeded(o) == IF o.kind = "flash_dfu" THEN o.flash_success ELSE o.rc = 0

\* the override is left as it is when the flasher ends
override_kept(raised) == "flashing"

\* the override written when the flasher ends: "failed" in the except
\* clause, "ready" after the last line
override_after_flash(raised) == IF raised THEN "failed" ELSE "ready"

\* the flash generator is exhausted ("ready", SUCCESS) or raised ("failed", FAILED)
bt_FlashDone ==
    /\ bt.pc = "flash_run"
    /\ op["batch"].pc \in {"done", "raised"}
    /\ LET dev == bt.sorted_devices[bt.i] IN
       IF op["batch"].pc = "raised"
       THEN /\ bt' = FlashRaised(bt, dev.name)
            /\ tasks' = update_device_status(tasks, BatchId, dev.id, override_after_flash(TRUE))
       ELSE /\ bt' = Result(bt, dev.name, "SUCCESS")
            /\ tasks' = update_device_status(tasks, BatchId, dev.id, override_after_flash(FALSE))
    /\ SetOp("batch", IdleOp)
    /\ UNCHANGED <<services, can_lock, dfu_lock, procs, can_cache_fresh, dfu_cache_fresh>>
    /\ UNCHANGED auxVars

\* add_log, once for each of the lines in order
add_logs(ts, task_id, logs) ==
    IF task_id \in DOMAIN ts
    THEN [ts EXCEPT ![task_id].logs = @ \o logs]
    ELSE ts

\* the summary with the header of each section whatever the results are
summary_with_both_sections(b) ==
    <<"[SUMMARY]", "BUILD RESULTS:", "FLASH RESULTS:", ">>> ALL BATCH OPERATIONS COMPLETED <<<">>

\* the lines of the summary: the section of the builds and the section of the
\* flashes are written only when there is a result to list
summary(b) ==
    <<"[SUMMARY]">>
    \o (IF DOMAIN b.build_results # {} THEN <<"BUILD RESULTS:">> ELSE <<>>)
    \o (IF DOMAIN b.flash_results # {} THEN <<"FLASH RESULTS:">> ELSE <<>>)
    \o <<">>> ALL BATCH OPERATIONS COMPLETED <<<">>

bt_Summary ==
    /\ bt.pc = "summary"
    /\ tasks' = add_logs(tasks, BatchId, summary(bt))
    /\ bt' = [bt EXCEPT !.pc = "finally"]
    /\ UNCHANGED services
    /\ UNCHANGED busVars
    /\ UNCHANGED auxVars

\* except Exception: the error is logged and the task completed as failed
bt_Except ==
    /\ bt.pc = "except"
    /\ tasks' = complete_task(add_log(tasks, BatchId, "!!! CRITICAL ERROR"), BatchId, "failed")
    /\ bt' = [bt EXCEPT !.pc = "finally"]
    /\ UNCHANGED services
    /\ UNCHANGED busVars
    /\ UNCHANGED auxVars

\* finally: with the services stopped, manage_klipper_services("start") is
\* called and awaited; otherwise the task is completed at once
bt_Finally ==
    /\ bt.pc = "finally"
    /\ IF bt.services_stopped
       THEN /\ tasks' = add_log(tasks, BatchId, ">>> Returning to service...")
            /\ services' = "running"
            /\ bt' = [bt EXCEPT !.pc = "starting"]
       ELSE /\ tasks' = complete_task(tasks, BatchId, "completed")
            /\ bt' = [bt EXCEPT !.pc = "done"]
            /\ UNCHANGED services
    /\ UNCHANGED busVars
    /\ UNCHANGED auxVars

\* the start returned: its line is logged and the task completed
bt_Complete ==
    /\ bt.pc = "starting"
    /\ tasks' = complete_task(add_log(tasks, BatchId, "services start"), BatchId, "completed")
    /\ bt' = [bt EXCEPT !.pc = "done"]
    /\ UNCHANGED services
    /\ UNCHANGED busVars
    /\ UNCHANGED auxVars

Count(seq, x) == Cardinality({k \in DOMAIN seq : seq[k] = x})

\* run_task is executing between two awaits: a generator or coroutine just
\* handed it an item or its result, or it is at a loop head that no await
\* precedes.  No other coroutine of the event loop runs at such a point.
TaskRunning ==
    \/ op["batch"].pc \in YieldPcs \cup {"done", "raised"}
    \/ bt.pc = "wait"
    \/ bt.pc = "reboot" /\ bt.i > 1
    \/ bt.pc = "flash_next" /\ bt.i = 1 /\ bt.reboot_tasks # <<>>

\* POST /task/cancel/{task_id}: cancel_task_operation, a request handler of
\* the same event loop
cancel_task_operation ==
    /\ ~TaskRunning
    /\ Count(tasks[BatchId].logs, "TASK CANCELLED BY USER") < MaxCancels
    /\ tasks' = cancel_task(tasks, BatchId)
    /\ bt' = [bt EXCEPT !.cancel_pc = IF @ = "none" THEN bt.pc ELSE @]
    /\ UNCHANGED services
    /\ UNCHANGED busVars
    /\ UNCHANGED auxVars

Init ==
    /\ tasks = create_task(<<>>, BatchId)
    /\ \E action \in Actions, fleet \in Fleets :
          /\ {"build", "flash"} \subseteq Words(action) => Len(fleet) <= MaxBuildFlashFleet
          /\ bt = NewFrame(action, fleet)
          /\ registry = [call |-> "init", before |-> fleet, device |-> [id |-> ""],
                          fleet |-> fleet]
    /\ services = "running"
    /\ op = [c \in {"batch"} |-> IdleOp]
    /\ can_lock = "free"
    /\ dfu_lock = "free"
    /\ procs = {}
    /\ can_cache_fresh = FALSE
    /\ dfu_cache_fresh = FALSE
    /\ gf = NoRequest
    /\ loop = LoopStart
    /\ scan = NoScan
    /\ call = NoCall

BatchOpStep ==
    \/ OpStep("batch")
    \/ flash_serial_Spawn("batch") \/ flash_serial_Chunk("batch")
    \/ flash_serial_Resume("batch") \/ flash_serial_ToolDone("batch")
    \/ flash_serial_Return("batch")
    \/ flash_linux_Install("batch") \/ flash_linux_Return("batch")

Next ==
    \/ bt_Start \/ bt_Build \/ bt_FlashBegin \/ bt_PreDiscovered \/ bt_PreStatus
    \/ bt_StopServices \/ bt_Reboot \/ bt_RebootDone \/ bt_Abandon \/ bt_WaitSleep
    \/ bt_WaitPoll
    \/ bt_FlashNext \/ bt_BridgeRebooted \/ bt_BridgeWait
    \/ bt_BridgeDfuReboot \/ bt_BridgeDfuPoll \/ bt_BridgeDfuListed \/ bt_FlashPrepare
    \/ bt_FlashResolved \/ bt_FlashDone \/ bt_Summary \/ bt_Except \/ bt_Finally
    \/ bt_Complete
    \/ cancel_task_operation
    \/ BatchOpStep
    \/ OrphanExit
    \/ CacheExpire

Spec == Init /\ [][Next]_vars

----------------------------------------------------------------------------
(* GET /fleet: get_fleet.  The overrides of the running tasks and the state  *)
(* of the locks are read once, before the loop over the devices.  With       *)
(* fast=true the handler has no await.  Otherwise a device without override  *)
(* and not reported bus_busy is probed with check_device_status.             *)

RunningTasks(ts) == {t \in DOMAIN ts : ts[t].status = "running"}

\* status_overrides.update(task["device_statuses"]) over the running tasks
status_overrides(ts) ==
    [id \in UNION {DOMAIN ts[t].device_statuses : t \in RunningTasks(ts)} |->
        ts[CHOOSE t \in RunningTasks(ts) : id \in DOMAIN ts[t].device_statuses]
            .device_statuses[id]]

is_bus_task_running(ts) == \E t \in RunningTasks(ts) : ts[t].is_bus_task

\* the answer for a device that is not probed, "probe" when it has none
unprobed_status(dev, overrides, can_locked, bus_task_running) ==
    IF dev.name \in DOMAIN overrides THEN overrides[dev.name]
    ELSE IF dev.method = "can" /\ can_locked /\ bus_task_running THEN "bus_busy"
    ELSE "probe"

\* the fast answer: the devices without answer are reported "querying"
get_fleet_fast(fleet, ts, can_locked) ==
    [k \in DOMAIN fleet |->
        LET st == unprobed_status(fleet[k], status_overrides(ts), can_locked,
                                  is_bus_task_running(ts))
        IN  IF st = "probe" THEN "querying" ELSE st]

\* the calls of discover_can_devices / discover_dfu_devices that
\* check_device_status makes for a device: none for a bridge without dfu_id
\* and for the host process, one CAN discovery for a CAN node, and for a DFU
\* device resolve_dfu_id (a DFU discovery) and then a second DFU discovery
Probes(dev) ==
    CASE dev.is_bridge \/ dev.method = "linux" -> <<>>
      [] dev.method = "can" -> <<StartOp("discover_can", "dc_ensure")>>
      [] dev.method = "dfu" -> <<StartOp("discover_dfu", "dd_wait"),
                                StartOp("discover_dfu", "dd_wait")>>

\* the devices of the registry a GET /fleet request meets
MaxRegistry == 1

\* fleet_mgr.get_fleet()
Registries == {f \in Fleets : Len(f) <= MaxRegistry}

get_fleet_Start ==
    /\ gf.pc = "idle"
    /\ \E fast \in BOOLEAN, fleet \in Registries :
          gf' = IF fast
                THEN [pc |-> "returned", fast |-> TRUE, fleet |-> fleet,
                      status |-> get_fleet_fast(fleet, tasks, can_lock # "free")]
                ELSE [pc |-> "device", fast |-> FALSE, fleet |-> fleet, status |-> <<>>,
                      status_overrides |-> status_overrides(tasks),
                      is_bus_task_running |-> is_bus_task_running(tasks),
                      can_locked |-> can_lock # "free", probes |-> <<>>]
    /\ UNCHANGED busVars
    /\ UNCHANGED taskVars
    /\ UNCHANGED <<loop, fileVars>>

\* the next device of the loop: its answer, or its first probe is called
get_fleet_Device ==
    /\ gf.pc = "device"
    /\ Len(gf.status) < Len(gf.fleet)
    /\ op["fleet"].pc = "idle"
    /\ LET dev == gf.fleet[Len(gf.status) + 1]
           st == unprobed_status(dev, gf.status_overrides, gf.can_locked,
                                 gf.is_bus_task_running)
       IN  IF st # "probe"
           THEN gf' = [gf EXCEPT !.status = Append(@, st)] /\ UNCHANGED op
           ELSE IF Probes(dev) = <<>>
           THEN /\ \E status \in Statuses(dev) : gf' = [gf EXCEPT !.status = Append(@, status)]
                /\ UNCHANGED op
           ELSE /\ gf' = [gf EXCEPT !.pc = "probe", !.probes = Tail(Probes(dev))]
                /\ SetOp("fleet", Head(Probes(dev)))
    /\ UNCHANGED <<can_lock, dfu_lock, procs, can_cache_fresh, dfu_cache_fresh>>
    /\ UNCHANGED taskVars
    /\ UNCHANGED <<loop, fileVars>>

\* a discovery returned: the next one is called, or check_device_status
\* returns the device's status
get_fleet_Probed ==
    /\ gf.pc = "probe"
    /\ op["fleet"].pc = "done"
    /\ IF gf.probes # <<>>
       THEN /\ gf' = [gf EXCEPT !.probes = Tail(@)]
            /\ SetOp("fleet", Head(gf.probes))
       ELSE /\ \E status \in Statuses(gf.fleet[Len(gf.status) + 1]) :
                  gf' = [gf EXCEPT !.pc = "device", !.status = Append(@, status)]
            /\ SetOp("fleet", IdleOp)
    /\ UNCHANGED <<can_lock, dfu_lock, procs, can_cache_fresh, dfu_cache_fresh>>
    /\ UNCHANGED taskVars
    /\ UNCHANGED <<loop, fileVars>>

\* the response is sent
get_fleet_Return ==
    /\ \/ gf.pc = "returned"
       \/ gf.pc = "device" /\ Len(gf.status) = Len(gf.fleet)
    /\ gf' = NoRequest
    /\ UNCHANGED busVars
    /\ UNCHANGED taskVars
    /\ UNCHANGED <<loop, fileVars>>

\* SpecFleet: GET /fleet requests ("fleet") beside one request running bus
\* operations ("req1"), with a task in the store that is either a fresh task
\* or a running bus task that has stored an override
FleetTask ==
    { NewTask,
      [NewTask EXCEPT !.is_bus_task = TRUE, !.device_statuses = [toolhead |-> "flashing"]] }

InitFleet ==
    /\ \E t \in FleetTask : tasks = [id \in {BatchId} |-> t]
    /\ bt = <<>>
    /\ services = "running"
    /\ op = [c \in {"req1", "fleet"} |-> IdleOp]
    /\ can_lock = "free"
    /\ dfu_lock = "free"
    /\ procs = {}
    /\ can_cache_fresh = FALSE
    /\ dfu_cache_fresh = FALSE
    /\ gf = NoRequest
    /\ loop = LoopStart
    /\ scan = NoScan
    /\ registry = NoRegistry
    /\ call = NoCall

NextFleet ==
    \/ get_fleet_Start \/ get_fleet_Device \/ get_fleet_Probed \/ get_fleet_Return
    \/ OpStep("fleet")
    \/ OpStep("req1") \/ RequestStep("req1")
    \/ OrphanExit
    \/ CacheExpire

SpecFleet == InitFleet /\ [][NextFleet]_vars

----------------------------------------------------------------------------
(* Task creation: POST /build, GET /batch/{action}, POST /flash,             *)
(* POST /flash/reboot and POST /debug/test_magic_baud each form their task   *)
(* id from the event loop's clock and create the task's record.              *)

\* the clock stops here in the model, and so many calls are served
MaxTime == 4
MaxCalls == 3

Endpoints == {"build", "batch", "flash", "reboot", "test_magic_baud"}

\* f"task_{int(asyncio.get_event_loop().time())}": the id is the whole
\* seconds of the clock
task_id_at(time) == time \div TicksPerSecond

loop_Tick ==
    /\ loop.time < MaxTime
    /\ loop' = [loop EXCEPT !.time = @ + 1]
    /\ UNCHANGED <<tasks, bt, services, gf, fileVars>>
    /\ UNCHANGED busVars

\* the endpoints that raise an HTTPException after create_task: build when
\* the profile has no .config (404), flash when the firmware is missing (400)
Rejecting == {"build", "flash"}

\* a task-creating call: the id, then create_task; flash and reboot flag
\* their task as a bus task.  Unless the request is rejected, the response
\* generator (for batch, the background task) of the id is handed to the
\* event loop.
task_Create ==
    /\ loop.calls < MaxCalls
    /\ \E endpoint \in Endpoints, rejected \in BOOLEAN :
          LET task_id == task_id_at(loop.time)
              ts == create_task(tasks, task_id)
          IN  /\ rejected => endpoint \in Rejecting
              /\ tasks' = IF endpoint \in {"flash", "reboot"}
                          THEN [ts EXCEPT ![task_id].is_bus_task = TRUE]
                          ELSE ts
              /\ loop' = [loop EXCEPT !.calls = @ + 1,
                                      !.streams = IF rejected THEN @ ELSE @ \cup {task_id}]
    /\ UNCHANGED <<bt, services, gf, fileVars>>
    /\ UNCHANGED busVars

\* a task goes on: it logs a line, then it is completed
task_Progress ==
    /\ \E t \in loop.streams :
          IF tasks[t].logs = <<>>
          THEN /\ tasks' = add_log(tasks, t, ">>> Starting")
               /\ UNCHANGED loop
          ELSE /\ tasks' = complete_task(tasks, t, "completed")
               /\ loop' = [loop EXCEPT !.streams = @ \ {t}]
    /\ UNCHANGED <<bt, services, gf, fileVars>>
    /\ UNCHANGED busVars

InitTasks ==
    /\ tasks = <<>>
    /\ bt = <<>>
    /\ services = "running"
    /\ op = <<>>
    /\ can_lock = "free"
    /\ dfu_lock = "free"
    /\ procs = {}
    /\ can_cache_fresh = FALSE
    /\ dfu_cache_fresh = FALSE
    /\ gf = NoRequest
    /\ loop = LoopStart
    /\ scan = NoScan
    /\ registry = NoRegistry
    /\ call = NoCall

NextTasks == loop_Tick \/ task_Create \/ task_Progress

SpecTasks == InitTasks /\ [][NextTasks]_vars

\* the event loop runs every generator and background task it was handed
SpecTasksFair == InitTasks /\ [][NextTasks]_vars /\ WF_vars(task_Progress)

----------------------------------------------------------------------------
(* Claims about the bus operations, under SpecBus *)

VendorCanTools == {"katapult_query", "klipper_query", "flashtool_reboot", "flashtool_flash"}

RunningCanTools == {p \in procs : p.tool \in VendorCanTools}

\* C3: the vendor CAN tools (bootloader query, firmware query, flashtool
\* reboot, flashtool flash) never run concurrently with one another: at most
\* one of their processes is alive at any moment.
C3_CanToolsNeverConcurrent == Cardinality(RunningCanTools) <= 1

\* C4: every process that drives the CAN bus or the DFU enumeration on behalf
\* of an operation runs while that operation holds the corresponding lock;
\* this includes the jump-to-application sender and the ":leave" upload.
C4_DriversHoldTheirLock ==
    \A p \in procs :
        p.owner \in DOMAIN op =>
            /\ p.tool \in CanTools => can_lock = p.owner
            /\ p.tool \in DfuTools => dfu_lock = p.owner

\* C8: flash_dfu always goes on to its next download attempt: it is never
\* suspended, between two attempts, on the DFU lock that it holds itself.
C8_RetryNotBlockedOnOwnLock ==
    \A c \in DOMAIN op :
        ~(op[c].nested /\ op[c].pc = "dd_wait" /\ dfu_lock = c)

----------------------------------------------------------------------------
(* Claims about the batch task, under Spec *)

Task == tasks[BatchId]

\* C1: a batch task that stopped the host services is not marked completed
\* before the service start was invoked.
C1_StartBeforeCompleted ==
    (Task.completed /\ bt.services_stopped) => services = "running"

InCatalog(name) == CHOOSE d \in Catalog : d.name = name

Position(seq, name) == CHOOSE k \in DOMAIN seq : seq[k].name = name

ProcessedBefore(k) == {bt.processed[j] : j \in 1..(k - 1)}

\* C2: the flash wave takes up a bridge only after every non-bridge device
\* with a profile has been taken up, and takes up the non-bridges in their
\* registry order.
C2_BridgesAfterNonBridges ==
    \A k \in DOMAIN bt.processed :
        LET dev == InCatalog(bt.processed[k]) IN
        /\ dev.is_bridge =>
              \A n \in DOMAIN bt.devices :
                  (bt.devices[n].profile /\ ~bt.devices[n].is_bridge)
                      => bt.devices[n].name \in ProcessedBefore(k)
        /\ ~dev.is_bridge =>
              \A j \in 1..(k - 1) :
                  /\ ~InCatalog(bt.processed[j]).is_bridge
                  /\ Position(bt.devices, bt.processed[j]) < Position(bt.devices, dev.name)

\* a fleet registered bridge first: its bridge was taken up second
C2_BridgeFirstFleetProcessed ==
    /\ Len(bt.devices) = 2
    /\ bt.devices[1].is_bridge
    /\ Len(bt.processed) = 2
    /\ bt.processed[2] = bt.devices[1].name

\* C5: while the task is running, a device whose override is "flashing" has
\* the lock of its bus (CAN for can, DFU for dfu) held by the batch task.
C5_FlashingHoldsBusLock ==
    Task.status = "running" =>
        \A k \in DOMAIN bt.sorted_devices :
            LET dev == bt.sorted_devices[k] IN
            get_device_status(tasks, BatchId, dev.id) = "flashing" =>
                /\ dev.method = "can" => can_lock = "batch"
                /\ dev.method = "dfu" => dfu_lock = "batch"

\* C6: when the flash of a device ends without the flash having succeeded,
\* the batch does not record SUCCESS for the device.
C6_SuccessOnlyAfterSuccessfulFlash ==
    [][(/\ bt.pc = "flash_run"
        /\ op["batch"].pc = "done"
        /\ ~Succeeded(op["batch"])
        /\ bt'.pc = "flash_next")
          => bt'.flash_results[bt.sorted_devices[bt.i].name] # "SUCCESS"]_vars

DeviceFailures == {"FAILED", "FAILED (no firmware)", "FAILED (Katapult timeout)", skipped("service"), skipped("offline")}

\* C7: no failure of a single device reaches the task's except clause, and a
\* flash batch that was not cancelled and met no other exception ends with a
\* result for every device that has a profile, the summary written and the
\* status "completed".
C7_DeviceFailureNeverAborts ==
    /\ bt.exc \in {"none", "build", "reboot"}
    /\ (bt.pc = "done" /\ bt.exc = "none" /\ ~Cancelled /\ "flash" \in Words(bt.action)) =>
          /\ \A k \in DOMAIN bt.devices :
                bt.devices[k].profile => bt.devices[k].name \in DOMAIN bt.flash_results
          /\ Count(Task.logs, "[SUMMARY]") = 1
          /\ Task.status = "completed"

\* a finished batch whose first device failed and whose second was flashed
C7_FailureThenSuccess ==
    /\ bt.pc = "done"
    /\ ~Cancelled
    /\ bt.exc = "none"
    /\ Len(bt.processed) = 2
    /\ bt.flash_results[bt.processed[1]] \in DeviceFailures
    /\ bt.flash_results[bt.processed[2]] = "SUCCESS"
    /\ Task.status = "completed"

\* C9: a batch task that met an exception and was not cancelled ends with
\* the critical-error line in its log and the status "failed".
C9_ExceptionEndsFailed ==
    (bt.pc = "done" /\ bt.exc # "none" /\ ~Cancelled) =>
        /\ Count(Task.logs, "!!! CRITICAL ERROR") > 0
        /\ Task.status = "failed"

\* C10: once the status of the task is no longer "running" it never changes.
C10_StatusSettlesOnce ==
    [][Task.status # "running" => Task'.status = Task.status]_vars

----------------------------------------------------------------------------
(* Claims about cancellation and the order of the phases, under Spec *)

\* the task is in its reboot wave: issuing the requests or waiting
RebootWavePcs == {"reboot", "reboot_run", "wait", "wait_poll"}

CancelledInRebootWave == bt.cancel_pc \in RebootWavePcs

FlashKinds == {"flash_can", "flash_dfu", "flash_serial", "flash_linux"}
FlashTools == {"flashtool_flash", "dfu_download", "flashtool_serial"}

\* a step that issues a reboot-to-bootloader request
IssuesReboot ==
    \/ op'["batch"].kind = "reboot_can" /\ op["batch"].kind # "reboot_can"
    \/ \E p \in procs' \ procs : p.tool = "flashtool_reboot"

AfterMarker ==
    LET logs == Task.logs
        m == CHOOSE k \in DOMAIN logs : logs[k] = "TASK CANCELLED BY USER"
    IN  SubSeq(logs, m + 1, Len(logs))

\* C12: the log of a task cancelled during its reboot wave ends with the
\* cancellation marker followed by the lines of the service start (the
\* announcement and the result of the start) and holds no other line after
\* the marker.
C12_NothingBetweenMarkerAndStart ==
    (CancelledInRebootWave /\ bt.pc = "done") =>
        AfterMarker = <<">>> Returning to service...", "services start">>

\* the phase a log line belongs to: 2 stop-services, 3 reboot wave, 4 flash
\* wave, 5 start-services, 6 summary; 0 for a line of no phase
PhaseOf(line) ==
    CASE line = "services stop" -> 2
      [] line \in {">>> Requesting Katapult reboot", ">>> MANUAL DFU ENTRY REQUIRED",
                   ">>> Waiting for devices to enter flash mode",
                   ">>> All hardware devices ready!",
                   ">>> hardware devices ready... (waiting)"} -> 3
      [] line = ">>> BATCH FLASH COMPLETED <<<" -> 4
      [] line \in {">>> Returning to service...", "services start"} -> 5
      [] line = "[SUMMARY]" -> 6
      [] OTHER -> 0

\* C13: the phases of a batch task occur in the order stop-services, reboot
\* wave, flash wave, start-services, summary: no line of a later phase
\* precedes a line of an earlier phase in the task log; in particular the
\* summary follows the start of the services.
C13_PhasesInOrder ==
    \A j, k \in DOMAIN Task.logs :
        (j < k /\ PhaseOf(Task.logs[j]) > 0 /\ PhaseOf(Task.logs[k]) > 0)
            => PhaseOf(Task.logs[j]) <= PhaseOf(Task.logs[k])

\* C14: a batch task whose completed flag is set has written its summary
\* exactly once, whether it ended normally, was cancelled or failed with a
\* critical error.
C14_SummaryOnceBeforeCompleted ==
    Task.completed => Count(Task.logs, "[SUMMARY]") = 1

----------------------------------------------------------------------------
(* Claims about GET /fleet *)

\* C15: while the running batch flash task holds the CAN lock, the fast
\* answer of GET /fleet is "bus_busy" for every device of the fleet whose
\* method is can.
C15_FastReportsBusBusy ==
    (Task.status = "running" /\ Task.is_bus_task /\ can_lock = "batch") =>
        \A k \in DOMAIN bt.devices :
            bt.devices[k].method = "can" =>
                get_fleet_fast(bt.devices, tasks, can_lock # "free")[k] = "bus_busy"

\* C16: a GET /fleet request is never suspended on the CAN lock or the DFU
\* lock while another operation holds that lock.
C16_FleetNeverWaitsForLock ==
    /\ ~(op["fleet"].pc = "dc_wait" /\ can_lock # "free")
    /\ ~(op["fleet"].pc = "dd_wait" /\ dfu_lock # "free")

----------------------------------------------------------------------------
(* Claims about the task store, under SpecTasks *)

\* C17: the task-creating calls obtain ids that differ from one another:
\* the store holds one record for each call served.
C17_TaskIdsUnique == Cardinality(DOMAIN tasks) = loop.calls

----------------------------------------------------------------------------
(* Claims about the bridges in the flash wave, under Spec *)

CurrentDevice == bt.sorted_devices[bt.i]

\* the record of the device carries an id adopted after a reboot
Adopted(dev) == dev.id # dev.name

FlasherOf(method) ==
    CASE method = "serial" -> "flash_serial"
      [] method = "can" -> "flash_can"
      [] method = "dfu" -> "flash_dfu"
      [] method = "linux" -> "flash_linux"

\* C18: the flash of a bridge that was rebooted and whose record carries the
\* adopted id is dispatched to the flasher of the adopted method with the
\* adopted id.
C18_BridgeFlashedWithAdoptedId ==
    (bt.pc = "flash_run" /\ CurrentDevice.is_bridge /\ Adopted(CurrentDevice)) =>
        /\ op["batch"].kind = FlasherOf(CurrentDevice.method)
        /\ op["batch"].device_id = CurrentDevice.id

----------------------------------------------------------------------------
(* The wait for a rebooted device: flash_device, and the bridge wait of the  *)
(* batch, poll the serial devices and compare them with the snapshot taken   *)
(* before the reboot.                                                        *)

\* so many polls are modelled, and so many devices are listed by one poll
ScanPolls == 2
MaxSerials == 3

\* /dev/serial/by-id names, as their words
SerialPaths == {<<"usb", "Klipper", "stm32f401xc", "main_mcu">>,
                <<"usb", "RandomNewDevice">>,
                <<"usb", "katapult", "stm32f401xc">>,
                <<"usb", "CanBoot", "rp2040">>}

\* Optional[str] = None
None == <<>>

\* str.lower() on the words of the names
lower(word) ==
    CASE word = "Klipper" -> "klipper"
      [] word = "RandomNewDevice" -> "randomnewdevice"
      [] word = "CanBoot" -> "canboot"
      [] OTHER -> word

\* "katapult" in d['id'].lower() or "canboot" in d['id'].lower()
names_bootloader(id) == \E k \in DOMAIN id : lower(id[k]) \in {"katapult", "canboot"}

\* for cid in current_ids: if cid not in initial_serials: ... break
RECURSIVE first_new(_, _)
first_new(current_ids, initial_serials) ==
    IF current_ids = <<>> THEN None
    ELSE IF Head(current_ids) \notin initial_serials THEN Head(current_ids)
    ELSE first_new(Tail(current_ids), initial_serials)

\* for d in current_serials: if "katapult" in ... or "canboot" in ...: ... break
RECURSIVE first_bootloader(_)
first_bootloader(current_serials) ==
    IF current_serials = <<>> THEN None
    ELSE IF names_bootloader(Head(current_serials)) THEN Head(current_serials)
    ELSE first_bootloader(Tail(current_serials))

\* the new-device detection of one poll: the first id that is not in the
\* snapshot, and the first bootloader name only when no id is new
new_serial_device(current_serials, initial_serials) ==
    LET new_device == first_new(current_serials, initial_serials)
    IN  IF new_device # None THEN new_device ELSE first_bootloader(current_serials)

\* discover_serial_devices(skip_moonraker=True): a glob, in the order of the
\* directory
SerialLists == {l \in UNION {[1..n -> SerialPaths] : n \in 0..MaxSerials} : IsInjective(l)}

\* await asyncio.sleep(1), then the poll lists the serial devices
scan_Discover ==
    /\ scan.pc = "sleep"
    /\ scan.polls < ScanPolls
    /\ \E current_serials \in SerialLists :
          scan' = [scan EXCEPT !.pc = "listed", !.polls = @ + 1,
                               !.current_serials = current_serials]
    /\ UNCHANGED <<tasks, bt, services, gf, loop, registry, call>>
    /\ UNCHANGED busVars

\* the two loops over the list, and the break out of the wait
scan_Select ==
    /\ scan.pc = "listed"
    /\ LET new_device == new_serial_device(scan.current_serials, scan.initial_serials)
       IN  scan' = [scan EXCEPT !.new_serial_device = new_device,
                                !.pc = IF new_device # None THEN "found" ELSE "sleep"]
    /\ UNCHANGED <<tasks, bt, services, gf, loop, registry, call>>
    /\ UNCHANGED busVars

\* the snapshot is taken before the reboot; the wait belongs to flash_device
\* or to the bridge of a batch
InitScan ==
    /\ tasks = <<>>
    /\ bt = <<>>
    /\ services = "running"
    /\ op = <<>>
    /\ can_lock = "free"
    /\ dfu_lock = "free"
    /\ procs = {}
    /\ can_cache_fresh = FALSE
    /\ dfu_cache_fresh = FALSE
    /\ gf = NoRequest
    /\ loop = LoopStart
    /\ registry = NoRegistry
    /\ call = NoCall
    /\ \E initial_serials \in SUBSET SerialPaths, site \in {"flash_device", "batch_operation"} :
          scan = [pc |-> "sleep", site |-> site, polls |-> 0,
                  initial_serials |-> initial_serials,
                  current_serials |-> <<>>, new_serial_device |-> None]

NextScan == scan_Discover \/ scan_Select

SpecScan == InitScan /\ [][NextScan]_vars

\* the ids of the list that were not in the snapshot
NewIds == {scan.current_serials[k] : k \in DOMAIN scan.current_serials} \ scan.initial_serials

\* C19: when several ids are present that were not in the snapshot and one
\* of them names a bootloader (katapult, canboot), the detection selects an
\* id that names a bootloader, whatever the order of the list.
C19_NewBootloaderPreferred ==
    (/\ scan.pc = "found"
     /\ Cardinality(NewIds) > 1
     /\ \E id \in NewIds : names_bootloader(id))
        => names_bootloader(scan.new_serial_device)

----------------------------------------------------------------------------
(* The fleet registry: FleetManager keeps the list of devices in fleet.json; *)
(* POST /fleet/device saves a device, DELETE /fleet/device removes one.      *)

\* the registry holds at most so many entries in the model
MaxEntries == 2

DeviceIds == {"test_id", "other_id", "new_id"}
DeviceNames == {"Old Name", "New Name"}

\* the dicts handed to save_device: with or without the key 'old_id', whose
\* value may be empty
Devices ==
    [{"id", "name"} -> DeviceIds \cup DeviceNames]
        \cup [{"id", "name", "old_id"} -> DeviceIds \cup DeviceNames \cup {""}]

DeviceDicts ==
    {d \in Devices : /\ d["id"] \in DeviceIds
                     /\ d["name"] \in DeviceNames
                     /\ "old_id" \in DOMAIN d => d["old_id"] \in DeviceIds \cup {""}}

\* dict.get(key): the value, or (None) the empty value
get(d, key) == IF key \in DOMAIN d THEN d[key] ELSE ""

\* device.copy() and pop(key, None)
pop(d, key) == [k \in DOMAIN d \ {key} |-> d[k]]

\* save_device: the first entry whose id is old_id (or the device's id when
\* there is no old_id) is replaced, else the device is appended; old_id is
\* never stored
save_device(fleet, device) ==
    LET old_id == get(device, "old_id")
        target_id == IF old_id # "" THEN old_id ELSE device["id"]
        found == {i \in DOMAIN fleet : fleet[i]["id"] = target_id}
        save_data == pop(device, "old_id")
    IN  IF found # {}
        THEN [fleet EXCEPT ![CHOOSE i \in found : \A j \in found : i <= j] = save_data]
        ELSE Append(fleet, save_data)

\* remove_device: [d for d in fleet if d['id'] != device_id]
remove_device(fleet, device_id) == SelectSeq(fleet, LAMBDA d : d["id"] # device_id)

\* POST /fleet/device
post_fleet_device ==
    /\ registry.call # "none"
    /\ \E device \in DeviceDicts :
          /\ Len(save_device(registry.fleet, device)) <= MaxEntries
          /\ registry' = [call |-> "save", before |-> registry.fleet, device |-> device,
                          fleet |-> save_device(registry.fleet, device)]
    /\ UNCHANGED <<tasks, bt, services, gf, loop, scan, call>>
    /\ UNCHANGED busVars

\* DELETE /fleet/device
delete_fleet_device ==
    /\ registry.call # "none"
    /\ \E device_id \in DeviceIds :
          registry' = [call |-> "remove", before |-> registry.fleet,
                       device |-> [id |-> device_id],
                       fleet |-> remove_device(registry.fleet, device_id)]
    /\ UNCHANGED <<tasks, bt, services, gf, loop, scan, call>>
    /\ UNCHANGED busVars

\* the methods an attach request names
AttachMethods == {"dfu", "serial", "can"}

\* dev[key] = value on a dict that may not have the key yet
with(d, key, value) == [k \in DOMAIN d \cup {key} |-> IF k = key THEN value ELSE d[k]]

\* post_fleet_attach on an entry that was found: the hardware id becomes the
\* entry's dfu_id (dfu) or its id (serial), and the entry is saved
attach(fleet, fleet_id, hardware_id, method) ==
    LET found == {i \in DOMAIN fleet : fleet[i]["id"] = fleet_id}
        dev == fleet[CHOOSE i \in found : \A j \in found : i <= j]
    IN  IF found = {}
        THEN fleet
        ELSE save_device(fleet, CASE method = "dfu" -> with(dev, "dfu_id", hardware_id)
                                  [] method = "serial" -> with(dev, "id", hardware_id)
                                  [] OTHER -> dev)

\* POST /fleet/attach (answered with 404 when no entry has the fleet id)
post_fleet_attach ==
    /\ registry.call # "none"
    /\ \E fleet_id \in DeviceIds, hardware_id \in DeviceIds, method \in AttachMethods :
          /\ Len(attach(registry.fleet, fleet_id, hardware_id, method)) <= MaxEntries
          /\ registry' = [call |-> "attach", before |-> registry.fleet,
                          device |-> [id |-> fleet_id],
                          fleet |-> attach(registry.fleet, fleet_id, hardware_id, method)]
    /\ UNCHANGED <<tasks, bt, services, gf, loop, scan, call>>
    /\ UNCHANGED busVars

\* _ensure_data_dir: fleet.json is created with an empty list
InitRegistry ==
    /\ tasks = <<>>
    /\ bt = <<>>
    /\ services = "running"
    /\ op = <<>>
    /\ can_lock = "free"
    /\ dfu_lock = "free"
    /\ procs = {}
    /\ can_cache_fresh = FALSE
    /\ dfu_cache_fresh = FALSE
    /\ gf = NoRequest
    /\ loop = LoopStart
    /\ scan = NoScan
    /\ call = NoCall
    /\ registry = [call |-> "init", before |-> <<>>, device |-> [id |-> ""], fleet |-> <<>>]

NextRegistry == post_fleet_device \/ post_fleet_attach \/ delete_fleet_device

SpecRegistry == InitRegistry /\ [][NextRegistry]_vars

HasId(fleet, id) == \E i \in DOMAIN fleet : fleet[i]["id"] = id

\* the entry with this id, and only it, is replaced by the device
ReplacedAt(before, after, id, stored) ==
    \E i \in DOMAIN before : before[i]["id"] = id /\ after = [before EXCEPT ![i] = stored]

\* C20: a save of D appends D without old_id when no entry has D's id (one
\* entry more); replaces the entry that has D's id in place, idempotently,
\* when there is one (as many entries); and a save of D' whose old_id is the
\* id of an entry replaces that entry by D' without old_id (as many entries),
\* after which no entry has the old id.
C20_SaveAppendsOrReplaces ==
    registry.call = "save" =>
        LET before == registry.before
            after == registry.fleet
            D == registry.device
            old_id == get(D, "old_id")
            stored == pop(D, "old_id")
            renames == old_id # "" /\ HasId(before, old_id)
        IN  /\ (~renames /\ ~HasId(before, D["id"])) =>
                  /\ after = Append(before, stored)
                  /\ "old_id" \notin DOMAIN after[Len(after)]
            /\ (old_id = "" /\ HasId(before, D["id"])) =>
                  /\ ReplacedAt(before, after, D["id"], stored)
                  /\ Len(after) = Len(before)
                  /\ save_device(after, D) = after
            /\ renames =>
                  /\ ReplacedAt(before, after, old_id, stored)
                  /\ Len(after) = Len(before)
                  /\ D["id"] # old_id => ~HasId(after, old_id)

----------------------------------------------------------------------------
(* resolve_dfu_id: the DFU device that stands for a device id, among the     *)
(* devices that dfu-util lists.                                              *)

\* dfu-util lists at most so many devices in the model
MaxDfu == 2

\* a string without structure, and a /dev/serial/by-id path: its prefix, then
\* the pieces of its file name between '_' once "-if" is replaced by '_'
Plain(text) == <<text>>
ById == "/dev/serial/by-id/"

\* len(s)
len(text) ==
    CASE text = "" -> 0
      [] text = "00" -> 2
      [] text = "1-1.2" -> 5
      [] text = "1-1.3" -> 5
      [] text = "UNKNOWN" -> 7
      [] text = "usb-Klipper" -> 11
      [] text = "stm32f401xc" -> 11
      [] text = "usb-katapult" -> 12
      [] text = "357236543131" -> 12
      [] text = "STM32FxSTM32" -> 12
      [] text = "/dev/ttyACM0" -> 12
      [] text = "rp2040" -> 6
      [] text = "E6611" -> 5
      [] text = "a1b2c3d4e5f6" -> 12
      [] text = "E66118F5D7123456" -> 16

\* "/" in s
has_slash(text) == text = "/dev/ttyACM0"

\* one "Found DFU:" line of dfu-util -l as a device: the serial is the id,
\* and the path when the serial is empty or "UNKNOWN"
dfu_device(serial, path) ==
    [id |-> IF serial # "" /\ serial # "UNKNOWN" THEN Plain(serial) ELSE Plain(path),
     serial |-> serial, path |-> path]

DfuDevices == {dfu_device("357236543131", "1-1.2"),
               dfu_device("UNKNOWN", "1-1.3"),
               dfu_device("STM32FxSTM32", "1-1.2")}

\* discover_dfu_devices(): the list, without two devices of one id
DfuLists == {l \in UNION {[1..n -> DfuDevices] : n \in 0..MaxDfu} : IsInjective(l)}

\* the ids handed to resolve_dfu_id
QueryIds == {<<ById, "usb-Klipper", "stm32f401xc", "357236543131", "00">>,
             <<ById, "usb-katapult", "rp2040", "E6611", "00">>,
             Plain("357236543131"), Plain("1-1.3"), Plain("UNKNOWN"),
             Plain("/dev/ttyACM0"), Plain("")}
KnownDfuIds == {None, Plain("STM32FxSTM32"), Plain("1-1.2")}

\* sorted(candidates, key=len, reverse=True)[0]: the longest, and the first
\* of the longest
longest(candidates) ==
    candidates[CHOOSE i \in DOMAIN candidates :
                  /\ \A j \in DOMAIN candidates : len(candidates[j]) <= len(candidates[i])
                  /\ \A j \in 1..(i - 1) : len(candidates[j]) < len(candidates[i])]

\* _extract_serial_from_id; "" stands for None
extract_serial_from_id(device_id) ==
    LET candidates == SelectSeq(Tail(device_id),
                                LAMBDA part : part \notin {"usb", "Klipper", "katapult",
                                                           "CanBoot", "00"})
    IN  IF device_id = Plain("") THEN ""
        ELSE IF Head(device_id) = ById
             THEN IF candidates # <<>> THEN longest(candidates) ELSE ""
             ELSE IF ~has_slash(device_id[1]) /\ len(device_id[1]) > 5
                  THEN device_id[1] ELSE ""

\* if not strict and len(devs) == 1
single_device_ignoring_strict(devs, strict) == Len(devs) = 1
single_device(devs, strict) == ~strict /\ Len(devs) = 1

\* resolve_dfu_id, on the list that discover_dfu_devices returned
resolve_dfu_id_among(devs, device_id, known_dfu_id, strict) ==
    LET target_serial == extract_serial_from_id(device_id)
        found == {i \in DOMAIN devs :
                     \/ devs[i].id = device_id
                     \/ devs[i].serial # "" /\ target_serial # ""
                                            /\ devs[i].serial = target_serial}
    IN  IF devs = <<>> THEN device_id
        ELSE IF known_dfu_id # None /\ \E i \in DOMAIN devs : devs[i].id = known_dfu_id
             THEN known_dfu_id
        ELSE IF known_dfu_id # None /\ single_device(devs, strict) THEN devs[1].id
        ELSE IF found # {} THEN devs[CHOOSE i \in found : \A j \in found : i <= j].id
        ELSE IF single_device(devs, strict) THEN devs[1].id
        ELSE device_id

\* the call returns
resolve_dfu_id_Return ==
    /\ call.fn = "resolve_dfu_id"
    /\ call.pc = "called"
    /\ call' = [call EXCEPT !.pc = "returned",
                            !.result = resolve_dfu_id_among(call.devs, call.device_id,
                                                            call.known_dfu_id, call.strict)]
    /\ UNCHANGED <<tasks, bt, services, gf, loop, scan, registry>>
    /\ UNCHANGED busVars

\* a call, with the list that the discovery returns to it
InitResolve ==
    /\ tasks = <<>>
    /\ bt = <<>>
    /\ services = "running"
    /\ op = <<>>
    /\ can_lock = "free"
    /\ dfu_lock = "free"
    /\ procs = {}
    /\ can_cache_fresh = FALSE
    /\ dfu_cache_fresh = FALSE
    /\ gf = NoRequest
    /\ loop = LoopStart
    /\ scan = NoScan
    /\ registry = NoRegistry
    /\ \E devs \in DfuLists, device_id \in QueryIds, known_dfu_id \in KnownDfuIds,
          strict \in BOOLEAN :
          call = [fn |-> "resolve_dfu_id", pc |-> "called", devs |-> devs,
                  device_id |-> device_id, known_dfu_id |-> known_dfu_id,
                  strict |-> strict, result |-> None]

NextResolve == resolve_dfu_id_Return

SpecResolve == InitResolve /\ [][NextResolve]_vars

\* the given id, and the known id if any, is neither the id of a listed
\* device nor names its serial
NoneMatches ==
    \A i \in DOMAIN call.devs :
        LET d == call.devs[i]
        IN  /\ d.id # call.device_id
            /\ d.id # call.known_dfu_id
            /\ Plain(d.serial) # call.device_id
            /\ Plain(d.serial) # call.known_dfu_id
            /\ d.serial # extract_serial_from_id(call.device_id)

Resolved == call.fn = "resolve_dfu_id" /\ call.pc = "returned"

\* C21: with one DFU device listed that the given ids do not match,
\* resolve_dfu_id returns that device's id in non-strict mode and the given
\* id in strict mode; with no device listed, or with several that do not
\* match, it returns the given id in both modes.
C21_SoleDeviceUnlessStrict ==
    Resolved =>
        /\ (Len(call.devs) = 1 /\ NoneMatches /\ ~call.strict)
              => call.result = call.devs[1].id
        /\ (Len(call.devs) = 1 /\ NoneMatches /\ call.strict)
              => call.result = call.device_id
        /\ call.devs = <<>> => call.result = call.device_id
        /\ (Len(call.devs) > 1 /\ NoneMatches) => call.result = call.device_id

\* a non-strict call with an unrelated id was answered with the sole device
C21_SoleDeviceAssumed ==
    /\ Resolved
    /\ Len(call.devs) = 1 /\ NoneMatches /\ ~call.strict
    /\ call.result = call.devs[1].id
    /\ call.result # call.device_id

----------------------------------------------------------------------------
(* Claims about dfu-util's exit codes *)

FlashDfuOps == {c \in DOMAIN op : op[c].kind = "flash_dfu" \/ op[c].nested}

\* C22: in flash_dfu the exit code 251 counts as success only on the leave
\* step: a download that ended with 251 does not lead to the leave step, it
\* is followed by the next attempt (the flash is not left suspended before
\* that attempt), and a flash that ended as failed ran no successful
\* download; a leave step that ended with 0 or 251 ends the flash as complete.
C22_Exit251OnlyOnLeave ==
    \A c \in FlashDfuOps :
        LET o == op[c]
        IN  /\ o.pc = "fd_leave_msg" => o.rc = 0
            /\ (o.pc = "fd_status" /\ o.rc = 251) => ~current_success(o)
            /\ (o.rc = 251 /\ o.nested /\ o.pc = "dd_wait") => dfu_lock # c
            /\ (o.pc = "done" /\ o.result = "failed") => ~o.flash_success
            /\ (o.pc = "done" /\ o.flash_success /\ o.leave /\ o.rc \in {0, 251})
                  => o.result = "complete"

----------------------------------------------------------------------------
(* Claims about the batch task and the fleet registry *)

\* update_device_version writes these keys
FlashMetadata == {"last_flashed", "flashed_version", "flashed_commit"}

\* C23: whenever the batch has recorded SUCCESS for a device, the registry
\* entry of that device carries the post-flash metadata, and every other
\* entry of the registry is as it was when the batch read it.
C23_SuccessWritesMetadata ==
    /\ Len(registry.fleet) = Len(bt.devices)
    /\ \A k \in DOMAIN bt.devices :
          LET name == bt.devices[k].name
          IN  IF name \in DOMAIN bt.flash_results /\ bt.flash_results[name] = "SUCCESS"
              THEN FlashMetadata \subseteq DOMAIN registry.fleet[k]
              ELSE registry.fleet[k] = bt.devices[k]

----------------------------------------------------------------------------
(* The CAN lock over the operations, with the progress the event loop and   *)
(* the tools make: a resumed generator, a finalizer and a coroutine run on,  *)
(* and flashtool ends after finitely many chunks of output.                  *)

\* one task that runs bus operations one after the other
CanCallers == {"req1"}

InitCan ==
    /\ tasks = <<>>
    /\ bt = <<>>
    /\ services = "running"
    /\ op = [c \in CanCallers |-> IdleOp]
    /\ can_lock = "free"
    /\ dfu_lock = "free"
    /\ procs = {}
    /\ can_cache_fresh = FALSE
    /\ dfu_cache_fresh = FALSE
    /\ gf = NoRequest
    /\ loop = LoopStart
    /\ scan = NoScan
    /\ registry = NoRegistry
    /\ call = NoCall

NextCan ==
    \/ OpStep("req1") \/ RequestStep("req1")
    \/ OrphanExit
    \/ CacheExpire

FairCan ==
    /\ WF_vars(OpStep("req1"))
    /\ SF_vars(flash_can_ToolDone("req1"))

SpecCan == InitCan /\ [][NextCan]_vars /\ FairCan

CanOpKinds == {"discover_can", "reboot_can", "flash_can"}
CanOpTools == {"katapult_query", "klipper_query", "flashtool_reboot", "flashtool_flash"}

\* the operation of c has not taken the lock yet, or has ended
OutsideCanLock(c) ==
    op[c].pc \in {"idle", "dc_ensure", "dc_wait", "rk_first", "rk_wait", "fc_wait",
                  "done", "raised"}

\* C24: the CAN lock is held while a discover, reboot-to-Katapult or flash
\* operation drives its tool, it is not held by a caller whose operation has
\* ended or whose next operation starts, and every time a caller holds the
\* lock it later does not hold it, however the operation ends.
C24_CanLockHeldForOneOperation ==
    /\ [](\A c \in CanCallers :
             /\ OutsideCanLock(c) => can_lock # c
             /\ \A p \in procs : (p.owner = c /\ p.tool \in CanOpTools) => can_lock = c)
    /\ \A c \in CanCallers : (can_lock = c) ~> (can_lock # c)

\* a flash over CAN ended with an exception and the lock is free
C24_RaisedAndReleased ==
    \E c \in CanCallers : /\ op[c].kind = "flash_can"
                        /\ op[c].pc = "raised"
                        /\ can_lock = "free"

----------------------------------------------------------------------------
(* The jump-to-application sender: the script that reboot_device starts for  *)
(* a CAN device builds two frames and sends them on the CAN socket.          *)

\* the bytes a UUID is drawn from
UuidByteValues == {0, 17, 170, 255}

\* a canbus_uuid: 12 hex digits
Uuids == [1..6 -> UuidByteValues]

\* Python's integers are not bounded: the operators on bits work on naturals
\* of any size
RECURSIVE xor(_, _)
xor(a, b) ==
    IF a = 0 /\ b = 0 THEN 0
    ELSE (((a % 2) + (b % 2)) % 2) + 2 * xor(a \div 2, b \div 2)

RECURSIVE and(_, _)
and(a, b) ==
    IF a = 0 \/ b = 0 THEN 0
    ELSE ((a % 2) * (b % 2)) + 2 * and(a \div 2, b \div 2)

RECURSIVE or(_, _)
or(a, b) ==
    IF a = 0 /\ b = 0 THEN 0
    ELSE (IF (a % 2) + (b % 2) > 0 THEN 1 ELSE 0) + 2 * or(a \div 2, b \div 2)

shl(a, n) == a * 2^n
shr(a, n) == a \div 2^n

\* one round of the loop of crc16_ccitt: the value of data after the two
\* "data ^=" lines, and the new crc
crc_data(crc, byte) ==
    LET d1 == xor(byte, and(crc, 255))
    IN  xor(d1, shl(and(d1, 15), 4))

crc_round(crc, byte) ==
    LET data == crc_data(crc, byte)
    IN  xor(xor(or(shl(data, 8), shr(crc, 8)), shr(data, 4)), shl(data, 3))

\* the values crc takes: 0xffff, then one per byte of buf
RECURSIVE crc_steps(_, _)
crc_steps(crc, buf) ==
    IF buf = <<>> THEN <<crc>>
    ELSE <<crc>> \o crc_steps(crc_round(crc, Head(buf)), Tail(buf))

\* crc16_ccitt(buf): return crc & 0xFFFF
crc16_ccitt(buf) ==
    LET steps == crc_steps(65535, buf)
    IN  and(steps[Len(steps)], 65535)

\* the two bytes in the other order (">H")
pack_be16(crc) == <<(crc \div 256) % 256, crc % 256>>

\* struct.pack("<H", crc)
pack_le16(crc) == <<crc % 256, (crc \div 256) % 256>>

\* send_can(id, data): the frame carries the id, len(data) and data padded
\* to 8 bytes; bytes beyond 8 are cut by "8s"
ljust8(data) == [k \in 1..8 |-> IF k <= Len(data) THEN data[k] ELSE 0]
can_frame(id, data) == [id |-> id, len |-> Len(data), data |-> ljust8(data)]

\* set_id_payload = bytes([0x11]) + uuid_bytes + bytes([128]); send_can(0x3f0, ...)
sender_SetId ==
    /\ call.fn = "jump_sender"
    /\ call.pc = "set_id"
    /\ call' = [call EXCEPT !.pc = "sleep",
                            !.frames = Append(@, can_frame(1008, <<17>> \o call.uuid_bytes \o <<128>>))]
    /\ UNCHANGED <<tasks, bt, services, gf, loop, scan, registry>>
    /\ UNCHANGED busVars

\* time.sleep(0.1); the COMPLETE command with its crc; send_can(0x200, pkt)
sender_Complete ==
    /\ call.fn = "jump_sender"
    /\ call.pc = "sleep"
    /\ LET cmd_body == <<21, 0>>
           crc == crc16_ccitt(cmd_body)
           pkt == <<1, 136>> \o cmd_body \o pack_le16(crc) \o <<153, 3>>
       IN  call' = [call EXCEPT !.pc = "sent",
                                !.crc_steps = crc_steps(65535, cmd_body),
                                !.frames = Append(@, can_frame(512, pkt))]
    /\ UNCHANGED <<tasks, bt, services, gf, loop, scan, registry>>
    /\ UNCHANGED busVars

\* uuid_bytes = bytes.fromhex(device_id), for a UUID of 12 hex digits
InitSender ==
    /\ tasks = <<>>
    /\ bt = <<>>
    /\ services = "running"
    /\ op = <<>>
    /\ can_lock = "free"
    /\ dfu_lock = "free"
    /\ procs = {}
    /\ can_cache_fresh = FALSE
    /\ dfu_cache_fresh = FALSE
    /\ gf = NoRequest
    /\ loop = LoopStart
    /\ scan = NoScan
    /\ registry = NoRegistry
    /\ \E uuid_bytes \in Uuids :
          call = [fn |-> "jump_sender", pc |-> "set_id", uuid_bytes |-> uuid_bytes,
                  frames |-> <<>>, crc_steps |-> <<>>]

NextSender == sender_SetId \/ sender_Complete

SpecSender == InitSender /\ [][NextSender]_vars

\* CRC-16-CCITT as Klipper and Katapult use it, bit by bit: initial value
\* 0xffff, the polynomial x^16 + x^12 + x^5 + 1 reflected (0x8408)
RECURSIVE crc_bitwise(_, _)
crc_bitwise(crc, n) ==
    IF n = 0 THEN crc
    ELSE crc_bitwise(IF crc % 2 = 1 THEN xor(shr(crc, 1), 33800) ELSE shr(crc, 1), n - 1)

RECURSIVE crc_reference(_, _)
crc_reference(crc, buf) ==
    IF buf = <<>> THEN crc
    ELSE crc_reference(crc_bitwise(xor(crc, Head(buf)), 8), Tail(buf))

\* C25: the sender sends exactly two frames: to 0x3f0 the 8 bytes 0x11, the
\* six UUID bytes, 0x80; then to 0x200 the 8 bytes 01 88 15 00 crc_lo crc_hi
\* 99 03, with the CRC-16-CCITT of 15 00 (initial value 0xffff), whose
\* computation stays within 16 bits at every step.
C25_JumpFrames ==
    (call.fn = "jump_sender" /\ call.pc = "sent") =>
        LET crc == crc_reference(65535, <<21, 0>>)
        IN  /\ Len(call.frames) = 2
            /\ call.frames[1] = [id |-> 1008, len |-> 8,
                                 data |-> <<17>> \o call.uuid_bytes \o <<128>>]
            /\ call.frames[2] = [id |-> 512, len |-> 8,
                                 data |-> <<1, 136, 21, 0, crc % 256, crc \div 256, 153, 3>>]
            /\ \A k \in DOMAIN call.crc_steps : call.crc_steps[k] < 65536

\* both frames of a UUID were sent
C25_BothFramesSent ==
    /\ call.fn = "jump_sender" /\ call.pc = "sent"
    /\ call.uuid_bytes = <<17, 17, 170, 170, 255, 0>>
    /\ Len(call.frames) = 2

----------------------------------------------------------------------------
(* get_flash_offset: the flash offset of a profile, read from its saved      *)
(* configuration.  A text is the sequence of its pieces: "_FLASH_START_",    *)
(* every digit, "=" and "y" are pieces of their own.                         *)

\* a saved configuration has at most so many lines in the model
MaxLines == 2

FLASH_START == "_FLASH_START_"

\* offsets, in the order of the dict
offsets ==
    << [key |-> <<FLASH_START, "8", "0", "0">>, addr |-> "0x08000800"],
       [key |-> <<FLASH_START, "2", "0", "0", "0">>, addr |-> "0x08002000"],
       [key |-> <<FLASH_START, "4", "0", "0", "0">>, addr |-> "0x08004000"],
       [key |-> <<FLASH_START, "8", "0", "0", "0">>, addr |-> "0x08008000"],
       [key |-> <<FLASH_START, "1", "0", "0", "0", "0">>, addr |-> "0x08010000"],
       [key |-> <<FLASH_START, "2", "0", "0", "0", "0">>, addr |-> "0x08020000"],
       [key |-> <<FLASH_START, "0">>, addr |-> "0x08000000"] >>

\* the lines of a .config: a key set to y under one of the two prefixes, a
\* key that is not set, and lines without a flash start
KeyLines ==
    {<<prefix>> \o offsets[k].key \o <<"=", "y", "\n">> :
        prefix \in {"CONFIG", "CONFIG_STM32"}, k \in DOMAIN offsets}

OtherLines ==
    {<<"RANDOM_STUFF", "=", "y", "\n">>,
     <<"# ", "CONFIG">> \o offsets[2].key \o <<" is not set", "\n">>,
     <<"CONFIG_FLASH_APPLICATION_ADDRESS", "=", "0x", "8", "0", "0", "8", "0", "0", "0", "\n">>}

Configs == UNION {[1..n -> KeyLines \cup OtherLines] : n \in 0..MaxLines}

\* f.read(): the lines, one after the other
RECURSIVE read(_)
read(lines) == IF lines = <<>> THEN <<>> ELSE Head(lines) \o read(Tail(lines))

\* needle in text
in(needle, text) ==
    \E i \in 0..(Len(text) - Len(needle)) :
        \A j \in 1..Len(needle) : text[i + j] = needle[j]

\* a search for the bare key, without "=y"
key_alone(key) == key

\* f"{key}=y"
key_set(key) == key \o <<"=", "y">>

\* get_flash_offset: the address of the first key of the dict that the
\* content holds, 0x08000000 when there is none or no file
get_flash_offset(exists, content) ==
    LET found == {k \in DOMAIN offsets : in(key_set(offsets[k].key), content)}
    IN  IF ~exists \/ found = {} THEN "0x08000000"
        ELSE offsets[CHOOSE k \in found : \A j \in found : k <= j].addr

get_flash_offset_Return ==
    /\ call.fn = "get_flash_offset"
    /\ call.pc = "called"
    /\ call' = [call EXCEPT !.pc = "returned",
                            !.result = get_flash_offset(call.exists, read(call.lines))]
    /\ UNCHANGED <<tasks, bt, services, gf, loop, scan, registry>>
    /\ UNCHANGED busVars

\* a call for a profile: its file exists or not, with some content
InitOffset ==
    /\ tasks = <<>>
    /\ bt = <<>>
    /\ services = "running"
    /\ op = <<>>
    /\ can_lock = "free"
    /\ dfu_lock = "free"
    /\ procs = {}
    /\ can_cache_fresh = FALSE
    /\ dfu_cache_fresh = FALSE
    /\ gf = NoRequest
    /\ loop = LoopStart
    /\ scan = NoScan
    /\ registry = NoRegistry
    /\ \E exists \in BOOLEAN, lines \in Configs :
          call = [fn |-> "get_flash_offset", pc |-> "called", exists |-> exists,
                  lines |-> lines, result |-> ""]

NextOffset == get_flash_offset_Return

SpecOffset == InitOffset /\ [][NextOffset]_vars

\* the keys of the table that the configuration sets to y
KeysSet ==
    {k \in DOMAIN offsets :
        \E n \in DOMAIN call.lines, prefix \in {"CONFIG", "CONFIG_STM32"} :
            call.lines[n] = <<prefix>> \o offsets[k].key \o <<"=", "y", "\n">>}

OffsetReturned == call.fn = "get_flash_offset" /\ call.pc = "returned"

\* C26: for a saved configuration that sets exactly one of the flash start
\* keys, under either prefix, get_flash_offset returns the address of that
\* key, and 0x08000000 when it sets none or the file does not exist.
C26_OffsetOfTheKey ==
    OffsetReturned =>
        /\ (call.exists /\ Cardinality(KeysSet) = 1)
              => \A k \in KeysSet : call.result = offsets[k].addr
        /\ (~call.exists \/ KeysSet = {}) => call.result = "0x08000000"

\* the key 8000 under the STM32 prefix gave 0x08008000
C26_Offset8000 ==
    /\ OffsetReturned
    /\ call.exists
    /\ call.lines = << <<"CONFIG_STM32">> \o offsets[4].key \o <<"=", "y", "\n">> >>
    /\ call.result = "0x08008000"

----------------------------------------------------------------------------
(* A batch on an empty fleet.  Only the steps that an empty fleet reaches    *)
(* are taken; the event loop runs the task's coroutine whenever it can, and  *)
(* the two CAN queries end (each is killed after its timeout).               *)

InitEmpty ==
    /\ tasks = create_task(<<>>, BatchId)
    /\ \E action \in Actions : bt = NewFrame(action, <<>>)
    /\ registry = NoRegistry
    /\ services = "running"
    /\ op = [c \in {"batch"} |-> IdleOp]
    /\ can_lock = "free"
    /\ dfu_lock = "free"
    /\ procs = {}
    /\ can_cache_fresh = FALSE
    /\ dfu_cache_fresh = FALSE
    /\ gf = NoRequest
    /\ loop = LoopStart
    /\ scan = NoScan
    /\ call = NoCall

run_task_empty ==
    \/ bt_Start \/ bt_Build \/ bt_FlashBegin \/ bt_PreDiscovered \/ bt_StopServices
    \/ bt_FlashNext \/ bt_Summary \/ bt_Finally \/ bt_Complete
    \/ discover_can_CacheTest("batch") \/ discover_can_Acquire("batch")
    \/ discover_can_KatapultDone("batch") \/ discover_can_KlipperDone("batch")

NextEmpty ==
    \/ run_task_empty
    \/ cancel_task_operation
    \/ OrphanExit
    \/ CacheExpire

SpecEmpty == InitEmpty /\ [][NextEmpty]_vars /\ WF_vars(run_task_empty)

EmptyFlashAll == bt.devices = <<>> /\ bt.action = "flash-all"

\* the tools that reboot or flash a device
RebootAndFlashTools == {p \in procs : p.tool \notin {"katapult_query", "klipper_query"}}

\* C27: a flash-all batch on an empty fleet terminates; unless it was
\* cancelled it ends with status "completed" and completed = TRUE, it
\* reboots and flashes nothing, and its summary, written once, has neither
\* the section of the build results nor the section of the flash results.
C27_EmptyFleetCompletes ==
    /\ [](EmptyFlashAll =>
            /\ bt.reboot_tasks = <<>> /\ bt.processed = <<>>
            /\ op["batch"].kind \in {"idle", "discover_can"}
            /\ RebootAndFlashTools = {}
            /\ DOMAIN Task.device_statuses = {}
            /\ (Task.completed /\ bt.cancel_pc = "none") =>
                  /\ Task.status = "completed"
                  /\ Count(Task.logs, "[SUMMARY]") = 1
                  /\ Count(Task.logs, "BUILD RESULTS:") = 0
                  /\ Count(Task.logs, "FLASH RESULTS:") = 0
                  /\ DOMAIN bt.build_results = {} /\ DOMAIN bt.flash_results = {})
    /\ EmptyFlashAll ~> Task.completed

\* an uncancelled flash-all batch on an empty fleet completed after stopping
\* and starting the services and writing its summary
C27_EmptyFleetCompleted ==
    /\ EmptyFlashAll
    /\ bt.cancel_pc = "none"
    /\ Task.completed /\ Task.status = "completed"
    /\ Count(Task.logs, "services stop") = 1
    /\ Count(Task.logs, "[SUMMARY]") = 1
    /\ Count(Task.logs, "services start") = 1

----------------------------------------------------------------------------
(* Claims about the bridges of a batch *)

\* where run_task is while it reboots the reboot wave's devices and waits for
\* them, and while it reboots a bridge and waits for it
RebootWave == {"reboot", "reboot_run", "wait", "wait_poll"}
BridgeReboot == {"bridge_reboot", "bridge_wait", "bridge_dfu_reboot", "bridge_dfu_wait",
                 "bridge_dfu_list"}

\* the non-bridge devices of the batch that have a profile
FlashableNonBridges ==
    {bt.devices[n].name : n \in {m \in DOMAIN bt.devices :
                                    bt.devices[m].profile /\ ~bt.devices[m].is_bridge}}

\* C28: the reboot wave holds no bridge, so no bridge is sent a reboot request
\* in it; a reboot request in the flash wave is for the bridge whose turn it
\* is, and by then every non-bridge device with a profile has its flash
\* result (flashed, failed or skipped).
C28_BridgeRebootedOnlyInItsTurn ==
    /\ \A k \in DOMAIN bt.reboot_tasks : ~bt.reboot_tasks[k].is_bridge
    /\ bt.pc \in RebootWave => bt.sorted_devices = <<>>
    /\ (op["batch"].kind = "reboot_can" /\ bt.pc \notin {"finally", "starting", "done", "except"})
          => \/ bt.pc = "reboot_run" /\ ~bt.reboot_tasks[bt.i].is_bridge
             \/ bt.pc = "bridge_reboot"
    /\ bt.pc \in BridgeReboot =>
          /\ bt.sorted_devices[bt.i].is_bridge
          /\ Task.device_statuses[bt.sorted_devices[bt.i].id] = "service"
          /\ FlashableNonBridges \subseteq DOMAIN bt.flash_results
          /\ \A k \in 1..(bt.i - 1) :
                bt.sorted_devices[k].is_bridge \/ ~bt.sorted_devices[k].profile
                    \/ bt.sorted_devices[k].name \in DOMAIN bt.flash_results

\* a bridge is being rebooted in the flash wave after a non-bridge went
\* through the reboot wave and got its flash result
C28_BridgeRebootAfterToolhead ==
    /\ bt.pc = "bridge_reboot"
    /\ op["batch"].kind = "reboot_can"
    /\ bt.reboot_tasks # <<>>
    /\ FlashableNonBridges # {}
    /\ FlashableNonBridges \subseteq DOMAIN bt.flash_results

----------------------------------------------------------------------------
(* Claims about the devices the flash wave flashes *)

\* where run_task is while it invokes the flasher of the current device
FlasherInvoked == {"flash_prepare", "flash_resolve", "flash_run"}

\* the status computed in the flash wave lets the device be flashed: ready or
\* dfu, a bridge in service (flashed once it re-appeared), or a linux device
MayFlash(dev) ==
    \/ bt.computed[dev.name] \in {"ready", "dfu"}
    \/ dev.is_bridge /\ bt.computed[dev.name] = "service"
    \/ dev.method = "linux"

\* a flasher is invoked, or the override "flashing" set, only for a device
\* that may be flashed
FlashedOnlyWhenReady ==
    \A k \in DOMAIN bt.sorted_devices :
        LET dev == bt.sorted_devices[k] IN
        (/\ dev.name \in DOMAIN bt.computed
         /\ \/ k = bt.i /\ bt.pc \in FlasherInvoked
            \/ get_device_status(tasks, BatchId, dev.id) = "flashing")
            => MayFlash(dev)

\* C29: a flasher is invoked for a device only if its status in the flash
\* wave is ready or dfu (or became ready when the bridge re-appeared) or its
\* method is linux; a device in any other mode has the result SKIPPED with
\* that mode and is never put into "flashing".
C29_OtherModesSkippedWithMode ==
    /\ FlashedOnlyWhenReady
    /\ \A k \in DOMAIN bt.sorted_devices :
          LET dev == bt.sorted_devices[k] IN
          (/\ dev.name \in DOMAIN bt.computed
           /\ ~MayFlash(dev)
           /\ dev.name \in DOMAIN bt.flash_results)
              => bt.flash_results[dev.name] = skipped(bt.computed[dev.name])

----------------------------------------------------------------------------
(* Claims about reboot_device *)

\* C30: the return to the application of a DFU device (the upload of length
\* 1 with ":leave") reports success when dfu-util exited with 0 or with 251,
\* and failure for every other exit code.
C30_LeaveSucceedsOn0And251 ==
    \A c \in DOMAIN op :
        (op[c].kind = "leave_dfu" /\ op[c].pc = "done") =>
            /\ op[c].rc \in {0, 251} => op[c].result = "leave_sent"
            /\ op[c].rc \notin {0, 251} => op[c].result = "leave_failed"

----------------------------------------------------------------------------
(* The build phase of a batch: run_build for each profile, and the          *)
(* classification of its log lines.  A line is a sequence of pieces, so     *)
(* that the marker tests of run_task are substring tests.                   *)

MaxProfiles == 2

ProfileNames == {"octopus", "ebb36"}

\* the state of everything but the call under study
NothingElse ==
    /\ tasks = <<>>
    /\ bt = <<>>
    /\ services = "running"
    /\ op = <<>>
    /\ can_lock = "free"
    /\ dfu_lock = "free"
    /\ procs = {}
    /\ can_cache_fresh = FALSE
    /\ dfu_cache_fresh = FALSE
    /\ gf = NoRequest
    /\ loop = LoopStart
    /\ scan = NoScan
    /\ registry = NoRegistry

\* profiles_to_build, and the frame of the loop over it
InitBuild ==
    /\ NothingElse
    /\ \E profiles \in {f \in UNION {[1..n -> ProfileNames] : n \in 0..MaxProfiles} :
                            IsInjective(f)} :
          call = [fn |-> "build_phase", profiles |-> profiles, i |-> 1, pc |-> "next",
                  build_success |-> TRUE, build_results |-> <<>>,
                  \* history: how each build ended, and the lines it yielded
                  ended |-> <<>>, logs |-> <<>>]

BuildFrame == call.fn = "build_phase"

\* "!!! Error" in log or "!!! Build failed" in log
marks_failure(log) == in(<<"!!! Error">>, log) \/ in(<<"!!! Build failed">>, log)

\* the body of "async for log in build_mgr.run_build(...)": the line is
\* logged and tested for the markers
consume(frame, log) ==
    [frame EXCEPT !.logs = Append(@, log),
                  !.build_success = IF marks_failure(log) THEN FALSE ELSE @]

\* run_build returns after this line: how the build ended is noted
finish(frame, how) ==
    [frame EXCEPT !.pc = "exhausted", !.ended = Put(@, frame.profiles[frame.i], how)]

\* the head of the loop over the profiles: run_build is called
build_Next ==
    /\ BuildFrame
    /\ call.pc = "next"
    /\ call.i <= Len(call.profiles)
    /\ call' = [call EXCEPT !.pc = "copy", !.build_success = TRUE]
    /\ UNCHANGED <<tasks, bt, services, gf, loop, scan, registry>>
    /\ UNCHANGED busVars

\* shutil.copy of the profile to .config
run_build_Copy ==
    /\ BuildFrame
    /\ call.pc = "copy"
    /\ \/ call' = finish(consume(call, <<"!!! Error", " copying config: ">>), "copy error")
       \/ call' = [consume(call, <<">>> ", "Cleaning build environment...">>)
                      EXCEPT !.pc = "clean"]
    /\ UNCHANGED <<tasks, bt, services, gf, loop, scan, registry>>
    /\ UNCHANGED busVars

\* make clean: _run_command raises when make cannot be started and when it
\* is killed after its timeout
run_build_Clean ==
    /\ BuildFrame
    /\ call.pc = "clean"
    /\ \/ \E how \in {"clean error", "clean timeout"} :
            call' = finish(consume(call, <<"!!! Error", " during make clean: ">>), how)
       \/ call' = [consume(call, <<">>> ", "Validating configuration (olddefconfig)...">>)
                      EXCEPT !.pc = "olddefconfig"]
    /\ UNCHANGED <<tasks, bt, services, gf, loop, scan, registry>>
    /\ UNCHANGED busVars

\* make olddefconfig
run_build_Olddefconfig ==
    /\ BuildFrame
    /\ call.pc = "olddefconfig"
    /\ \/ \E how \in {"olddefconfig error", "olddefconfig timeout"} :
            call' = finish(consume(call, <<"!!! Error", " during make olddefconfig: ">>), how)
       \/ call' = [consume(call, <<">>> ", "Starting build...">>) EXCEPT !.pc = "make"]
    /\ UNCHANGED <<tasks, bt, services, gf, loop, scan, registry>>
    /\ UNCHANGED busVars

\* make ended: its return code decides the last lines
run_build_Make ==
    /\ BuildFrame
    /\ call.pc = "make"
    /\ \E rc \in ReturnCodes :
          call' = IF rc = 0
                  THEN finish(consume(call, <<">>> ", "Build successful!">>), "succeeded")
                  ELSE finish(consume(call, <<">>> ", "Build failed", " with return code ">>),
                              "make failed")
    /\ UNCHANGED <<tasks, bt, services, gf, loop, scan, registry>>
    /\ UNCHANGED busVars

\* the generator is exhausted: the profile is classified
build_Classify ==
    /\ BuildFrame
    /\ call.pc = "exhausted"
    /\ call' = [call EXCEPT !.pc = "next", !.i = @ + 1,
                            !.build_results =
                                Put(@, call.profiles[call.i],
                                    IF call.build_success THEN "SUCCESS" ELSE "FAILED")]
    /\ UNCHANGED <<tasks, bt, services, gf, loop, scan, registry>>
    /\ UNCHANGED busVars

NextBuild ==
    \/ build_Next \/ run_build_Copy \/ run_build_Clean \/ run_build_Olddefconfig
    \/ run_build_Make \/ build_Classify

SpecBuild == InitBuild /\ [][NextBuild]_vars

\* C31: a profile of the build phase is classified SUCCESS exactly when its
\* build succeeded; a build that ended in an error (copy, make clean,
\* olddefconfig, or make exiting non-zero) is classified FAILED.
C31_SuccessExactlyWhenBuilt ==
    BuildFrame =>
        \A profile \in DOMAIN call.build_results :
            call.build_results[profile] =
                IF call.ended[profile] = "succeeded" THEN "SUCCESS" ELSE "FAILED"

----------------------------------------------------------------------------
(* Claims about the cancel checks of a batch, under Spec *)

\* a step of run_task that starts an external operation: an operation of the
\* flash manager is called, or the probes of a wait iteration (DFU and serial
\* resolution, interface check, check_device_status) are run after its sleep
StartsExternalOperation ==
    \/ op["batch"].kind = "idle" /\ op'["batch"].kind # "idle"
    \/ bt.pc = "wait_poll" /\ bt'.pc # "wait_poll"

\* C32: once the cancellation bit is set, the task starts no further
\* external operation (status probe, resolution, interface check, reboot or
\* flash): only the operation in flight ends, and the services are started.
C32_NoOperationAfterCancel ==
    [][Cancelled => ~StartsExternalOperation]_vars

----------------------------------------------------------------------------
(* Claims about the discovery cache, under SpecBus *)

\* the operations that change the state of the devices of a CAN interface
StateChangingCanOps == {"flash_can", "reboot_can"}

\* C33: whenever the CAN lock is released by flash_can or by the CAN reboot
\* to Katapult, the discovery cache of the interface is invalid at the moment
\* of the release, also when the operation ends early.
C33_CacheInvalidOnRelease ==
    [][\A c \in DOMAIN op :
          (can_lock = c /\ can_lock' # c /\ op[c].kind \in StateChangingCanOps)
              => ~can_cache_fresh']_vars

----------------------------------------------------------------------------
(* check_device_status for a bridge, on what its queries return: the list   *)
(* of discover_serial_devices, the list of discover_dfu_devices,            *)
(* os.path.exists(device_id), is_interface_up and Moonraker's MCU object.   *)

\* the bridge as the registry can hold it: by the serial path of its
\* application firmware, or by its CAN UUID
KlipperPath == <<ById, "usb-Klipper", "stm32f401xc", "357236543131", "00">>
KatapultPath == <<ById, "usb-katapult", "stm32f401xc", "357236543131", "00">>
OtherPath == <<ById, "usb-katapult", "rp2040", "E6611", "00">>
BridgeRegistrations == {[id |-> KlipperPath, method |-> "serial"],
                        [id |-> Plain("a1b2c3d4e5f6"), method |-> "can"]}

\* device_id.startswith("/dev/")
starts_with_dev(device_id) == Head(device_id) = ById \/ device_id = Plain("/dev/ttyACM0")

\* target_serial in s['id']
serial_in(target_serial, id) == \E k \in DOMAIN id : id[k] = target_serial

\* the branch "if is_bridge" of check_device_status
check_device_status_bridge(a) ==
    LET target_serial == extract_serial_from_id(a.device_id)
        resolved_dfu_id == resolve_dfu_id_among(a.dfus, a.device_id, a.dfu_id, FALSE)
    IN  IF \E s \in a.serials :
              s = a.device_id \/ (target_serial # "" /\ serial_in(target_serial, s))
        THEN "ready"
        ELSE IF a.dfu_id # None /\ \E i \in DOMAIN a.dfus : a.dfus[i].id = resolved_dfu_id
        THEN "ready"
        ELSE IF a.method = "serial" \/ starts_with_dev(a.device_id)
        THEN IF a.path_exists /\ a.interface_up THEN "service" ELSE "offline"
        ELSE IF a.interface_up
        THEN IF ~a.skip_moonraker
             THEN IF a.mcu_active THEN "service" ELSE "offline"
             ELSE "service"
        ELSE "offline"

check_device_status_Return ==
    /\ call.fn = "check_device_status"
    /\ call.pc = "called"
    /\ call' = [call EXCEPT !.pc = "returned", !.result = check_device_status_bridge(call)]
    /\ UNCHANGED <<tasks, bt, services, gf, loop, scan, registry>>
    /\ UNCHANGED busVars

\* a call for a bridge; a path that the serial discovery lists exists
InitStatus ==
    /\ NothingElse
    /\ \E dev \in BridgeRegistrations, serials \in SUBSET {KlipperPath, KatapultPath, OtherPath},
          dfus \in DfuLists, dfu_id \in {None, Plain("STM32FxSTM32")},
          path_exists, interface_up, skip_moonraker, mcu_active \in BOOLEAN :
          /\ dev.id \in serials => path_exists
          /\ call = [fn |-> "check_device_status", pc |-> "called",
                     device_id |-> dev.id, method |-> dev.method, dfu_id |-> dfu_id,
                     skip_moonraker |-> skip_moonraker, serials |-> serials, dfus |-> dfus,
                     path_exists |-> path_exists, interface_up |-> interface_up,
                     mcu_active |-> mcu_active, result |-> ""]

NextStatus == check_device_status_Return

SpecStatus == InitStatus /\ [][NextStatus]_vars

\* the bridge is met in a bootloader incarnation: its Katapult serial device
\* is listed, or a DFU device stands for it
BootloaderIncarnation ==
    \/ KatapultPath \in call.serials
    \/ call.dfu_id # None /\ call.dfus # <<>>
    \/ \E i \in DOMAIN call.dfus : call.dfus[i].serial = "357236543131"

\* the bridge runs its application firmware: the interface is up, a bridge
\* registered by its serial path has this path existing and listed, Moonraker
\* (when asked) reports the MCU active, and no bootloader incarnation is met
RunsApplication ==
    /\ call.interface_up
    /\ Head(call.device_id) = ById => (call.path_exists /\ call.device_id \in call.serials)
    /\ call.skip_moonraker \/ call.mcu_active
    /\ ~BootloaderIncarnation

\* C34: for a bridge, check_device_status returns "service" when the bridge
\* runs its application firmware, "ready" only when the bridge is met in a
\* bootloader incarnation, and "offline" otherwise.
C34_BridgeStatus ==
    (call.fn = "check_device_status" /\ call.pc = "returned") =>
        /\ RunsApplication => call.result = "service"
        /\ call.result = "ready" => BootloaderIncarnation
        /\ (~RunsApplication /\ ~BootloaderIncarnation) => call.result = "offline"

----------------------------------------------------------------------------
(* Claims about the detection of a new serial device, under SpecScan *)

\* C35: the detection identifies no device when every serial id present is
\* in the snapshot initial_serials, whatever ids the snapshot contains.
C35_NothingNewNothingFound ==
    (scan.pc \in {"found", "sleep"} /\ scan.polls > 0 /\ NewIds = {})
        => scan.new_serial_device = None

----------------------------------------------------------------------------
(* Claims about the end of the task records, under SpecTasksFair *)

\* the ids that the clock of the model can give
TaskIds == 0..(MaxTime \div TicksPerSecond)

\* C36: every task record created by an entry point eventually has
\* completed = TRUE, also when the request is rejected after the record was
\* created: no record stays "running" forever.
C36_EveryRecordCompletes ==
    \A t \in TaskIds :
        (t \in DOMAIN tasks) ~> (t \in DOMAIN tasks /\ tasks[t].completed)

----------------------------------------------------------------------------
(* Claims about the override "flashing", under Spec *)

\* the devices whose override in the task is "flashing"
Flashing(ts) ==
    {d \in DOMAIN ts[BatchId].device_statuses : ts[BatchId].device_statuses[d] = "flashing"}

\* C37: at every moment of a batch task at most one device has the override
\* "flashing": a step that sets it for a device finds it set for no other,
\* the override of the device before being "ready" or "failed" by then.
C37_OneDeviceFlashing ==
    [][/\ Cardinality(Flashing(tasks')) <= 1
       /\ \A d \in Flashing(tasks') \ Flashing(tasks) : Flashing(tasks) = {}]_vars

\* a second device is being flashed after the first one ended
C37_SecondDeviceFlashing ==
    /\ Cardinality(Flashing(tasks)) = 1
    /\ Len(bt.processed) = 2
    /\ bt.pc = "flash_run"
    /\ get_device_status(tasks, BatchId, bt.sorted_devices[1].id) \in {"ready", "failed"}
    /\ get_device_status(tasks, BatchId, bt.sorted_devices[2].id) = "flashing"

\* C38: starting from an empty registry, after any sequence of saves (with or
\* without old_id), attaches and removals, no two entries of the registry
\* have the same id.
C38_RegistryIdsUnique ==
    \A i, j \in DOMAIN registry.fleet :
        i # j => registry.fleet[i]["id"] # registry.fleet[j]["id"]

----------------------------------------------------------------------------
(* The wait of the reboot wave: every two seconds each queued reboot entry   *)
(* is resolved again against the DFU devices and the serial paths that are   *)
(* present, and the device records of the batch are rewritten.               *)

\* iterations of the wait in the model
WavePolls == 3

\* the devices of the batch: all with a profile, none a bridge, all found in
\* service, so that reboot_tasks[i] was created from devices[i]
Rp2040KlipperPath == <<ById, "usb-Klipper", "rp2040", "E66118F5D7123456", "00">>
Rp2040KatapultPath == <<ById, "usb-katapult", "rp2040", "E66118F5D7123456", "00">>

WaveRegistrations == {[id |-> KlipperPath, method |-> "serial", dfu_id |-> None],
                      [id |-> Rp2040KlipperPath, method |-> "serial", dfu_id |-> None],
                      [id |-> Plain("STM32FxSTM32"), method |-> "dfu", dfu_id |-> None]}

WaveFleets == {l \in [1..1 -> WaveRegistrations] \cup [1..2 -> WaveRegistrations] :
                  \A i, j \in DOMAIN l : l[i].id = l[j].id => i = j}

\* the paths under /dev/serial/by-id that a discovery lists
ByIdLists ==
    {l \in UNION {[1..n -> {KlipperPath, KatapultPath, Rp2040KlipperPath,
                             Rp2040KatapultPath}] : n \in 0..MaxSerials} :
        IsInjective(l)}

\* os.path.exists(path)
exists(serials, path) == \E i \in DOMAIN serials : serials[i] = path

\* "katapult" in id.lower() or "canboot" in id.lower()
names_katapult(id) == \E k \in DOMAIN id : id[k] \in {"usb-katapult", "usb-CanBoot"}

\* resolve_serial_id without known_serial_id, on the lists the discoveries return
resolve_serial_id_among(serials, devs, device_id) ==
    LET extracted == extract_serial_from_id(device_id)
        listed == {i \in DOMAIN devs : devs[i].id = device_id}
        target_serial ==
            IF extracted # "" THEN extracted
            ELSE IF listed # {} THEN devs[CHOOSE i \in listed : \A j \in listed : i <= j].serial
            ELSE ""
        found == {i \in DOMAIN serials : serial_in(target_serial, serials[i])}
    IN  IF exists(serials, device_id) THEN device_id
        ELSE IF target_serial # "" /\ found # {}
             THEN serials[CHOOSE i \in found : \A j \in found : i <= j]
        ELSE device_id

\* check_device_status of a device that is no bridge, for the methods "serial"
\* and "dfu"
check_device_status_among(serials, devs, device_id, method, dfu_id) ==
    LET resolved_dfu_id == resolve_dfu_id_among(devs, device_id, dfu_id, FALSE)
        resolved_id == resolve_serial_id_among(serials, devs, device_id)
    IN  IF method = "serial"
        THEN IF exists(serials, device_id)
             THEN IF names_katapult(device_id) THEN "ready" ELSE "service"
             ELSE IF resolved_dfu_id # device_id THEN "dfu"
             ELSE IF resolved_id # device_id /\ exists(serials, resolved_id)
                  THEN IF names_katapult(resolved_id) THEN "ready" ELSE "service"
             ELSE "offline"
        ELSE IF \E i \in DOMAIN devs : devs[i].id = resolved_dfu_id THEN "dfu"
             ELSE IF exists(serials, resolved_id) THEN "service"
             ELSE "offline"

\* for d in devices: if d['id'] == original_id: <rewrite>; break
rewrite(devices, original_id, id, method) ==
    LET found == {i \in DOMAIN devices : devices[i].id = original_id}
    IN  IF found = {} THEN devices
        ELSE [devices EXCEPT ![CHOOSE i \in found : \A j \in found : i <= j] =
                 [@ EXCEPT !.id = id,
                           !.method = IF method = "same" THEN @ ELSE method]]

\* the body of "for dev_info in reboot_tasks" for the k-th entry: the entry
\* and the devices after it, and whether the entry counts as ready
wave_entry(w, k, serials, devs) ==
    LET dev_info == w.reboot_tasks[k]
        resolved_dfu_id == resolve_dfu_id_among(devs, dev_info.id, dev_info.dfu_id, FALSE)
        new_id == resolve_serial_id_among(serials, devs, dev_info.id)
        after ==
            IF resolved_dfu_id # dev_info.id
            THEN [w EXCEPT !.devices = rewrite(@, dev_info.original_id, resolved_dfu_id, "dfu"),
                           !.reboot_tasks[k].id = resolved_dfu_id,
                           !.reboot_tasks[k].method = "dfu"]
            ELSE IF dev_info.method = "serial" /\ new_id # dev_info.id
            THEN [w EXCEPT !.devices = rewrite(@, dev_info.original_id, new_id, "same"),
                           !.reboot_tasks[k].id = new_id]
            ELSE w
        status == check_device_status_among(serials, devs, after.reboot_tasks[k].id,
                                            after.reboot_tasks[k].method, dev_info.dfu_id)
    IN  [after EXCEPT !.ready_count = @ + (IF status \in {"ready", "dfu"} THEN 1 ELSE 0)]

RECURSIVE wave_entries(_, _, _, _)
wave_entries(w, k, serials, devs) ==
    IF k > Len(w.reboot_tasks) THEN w
    ELSE wave_entries(wave_entry(w, k, serials, devs), k + 1, serials, devs)

\* one iteration of "for i in range(wait_time // 2)": the wait ends when every
\* entry is ready, or with the last iteration
wave_Poll ==
    /\ call.fn = "reboot_wave"
    /\ call.pc = "waiting"
    /\ \E serials \in ByIdLists, devs \in DfuLists :
          LET w == wave_entries([call EXCEPT !.ready_count = 0], 1, serials, devs)
          IN  call' = [w EXCEPT !.polls = @ + 1,
                                !.pc = IF \/ w.ready_count = Len(w.reboot_tasks)
                                          \/ call.polls + 1 = WavePolls
                                       THEN "flash_wave" ELSE "waiting"]
    /\ UNCHANGED <<tasks, bt, services, gf, loop, scan, registry>>
    /\ UNCHANGED busVars

\* the reboot requests were sent for a batch whose devices have distinct ids
InitWave ==
    /\ NothingElse
    /\ \E devices \in WaveFleets :
          call = [fn |-> "reboot_wave", pc |-> "waiting", polls |-> 0, ready_count |-> 0,
                  devices |-> [i \in DOMAIN devices |->
                                  [id |-> devices[i].id, method |-> devices[i].method]],
                  reboot_tasks |-> [i \in DOMAIN devices |->
                                       [original_id |-> devices[i].id, id |-> devices[i].id,
                                        method |-> devices[i].method,
                                        dfu_id |-> devices[i].dfu_id]]]

NextWave == wave_Poll

SpecWave == InitWave /\ [][NextWave]_vars

\* C39: through every identity rewrite of a batch started on devices with
\* pairwise distinct ids, the device records keep pairwise distinct ids.
C39_DeviceIdsStayDistinct ==
    call.fn = "reboot_wave" =>
        \A i, j \in DOMAIN call.devices :
            i # j => call.devices[i].id # call.devices[j].id

\* C40: after every iteration of the wait, each queued reboot entry and the
\* device record it was created from agree on id and method.
C40_EntryAgreesWithDevice ==
    call.fn = "reboot_wave" =>
        \A i \in DOMAIN call.reboot_tasks :
            /\ call.reboot_tasks[i].id = call.devices[i].id
            /\ call.reboot_tasks[i].method = call.devices[i].method

====
